---------------------------- MODULE Spec2Model ----------------------------
(***************************************************************************)
(* A model of the license report tool of src/main.go (the revision that    *)
(* handles go.mod, package.json and pyproject.toml, lines 496-1308): the   *)
(* three manifest parsers, the three registry resolvers and the run of     *)
(* main that ties them together.                                           *)
(*                                                                         *)
(* Strings.  A Go string is modelled as a sequence of characters, each a   *)
(* one-character TLA+ string, so that prefixes, splits and containment are *)
(* computed as the code computes them.  A literal of the program that is   *)
(* only ever copied or concatenated (a base URL, a header cell) is kept as *)
(* one element of the sequence; the empty string is << >>.                 *)
(***************************************************************************)
EXTENDS Integers, Sequences, FiniteSets, TLC

VARIABLES
    manifest,     \* the file chosen in the dialog (main.go:1162), as read by os.ReadFile
    pc,           \* where main is
    packages,     \* main.go:1190
    moduleName,   \* main.go:1189
    idx,          \* the loop variable i of main.go:1238
    errorDialog,  \* the zenity.Error dialog main has shown, << >> when none
    workbook,     \* TRUE once excelize.NewFile() has run (main.go:1216)
    sheet,        \* row number -> the cells written to that row
    savedAs,      \* the name the workbook was saved under, << >> when not saved
    request,      \* the HTTP exchange of the resolver call in progress
    events,       \* history: the resolver calls and returns of the run, in order
    openBodies,   \* response bodies obtained and not closed
    constraint,   \* a version constraint under normalization
    normalized,   \* the result of normalizing it
    call,         \* a resolver call on its own: the package and the registry's answer
    result        \* what that call came to

vars == << manifest, pc, packages, moduleName, idx, errorDialog, workbook, sheet,
           savedAs, request, events, openBodies, constraint, normalized, call, result >>

runVars == << manifest, pc, packages, moduleName, idx, errorDialog, workbook, sheet,
              savedAs, request, events, openBodies >>

normVars == << constraint, normalized >>

callVars == << call, result >>

funVars == << normVars, callVars >>

---------------------------------------------------------------------------
(* Bounds of the model *)

\* the most dependency entries a manifest of the run declares
MaxDeps == 2

\* the longest version constraint normalization is applied to
MaxConstraintLen == 4

\* the most entries in one dependency table of a pyproject.toml given to the parser
MaxEntries == 2

\* the most classifiers in a PyPI answer given to the resolver
MaxClassifiers == 2

---------------------------------------------------------------------------
(* package strings *)

Empty == << >>

\* strings.HasPrefix
HasPrefix(s, p) == Len(s) >= Len(p) /\ SubSeq(s, 1, Len(p)) = p

\* strings.TrimPrefix: s without the leading p, or s itself
TrimPrefix(s, p) == IF HasPrefix(s, p) THEN SubSeq(s, Len(p) + 1, Len(s)) ELSE s

\* strings.Contains
Contains(s, sub) ==
    \E k \in 0..(Len(s) - Len(sub)) : SubSeq(s, k + 1, k + Len(sub)) = sub

\* strings.Split for a non-empty separator
RECURSIVE Split(_, _)
Split(s, sep) ==
    IF ~Contains(s, sep) THEN << s >>
    ELSE LET at == CHOOSE k \in 1..Len(s) :
                      /\ SubSeq(s, k, k + Len(sep) - 1) = sep
                      /\ \A j \in 1..(k - 1) : SubSeq(s, j, j + Len(sep) - 1) # sep
         IN  << SubSeq(s, 1, at - 1) >> \o Split(SubSeq(s, at + Len(sep), Len(s)), sep)

\* strings.ToLower on the letters of the model's alphabet
UpperToLower ==
    "A" :> "a" @@ "B" :> "b" @@ "C" :> "c" @@ "D" :> "d" @@ "E" :> "e" @@ "F" :> "f"
    @@ "G" :> "g" @@ "H" :> "h" @@ "I" :> "i" @@ "J" :> "j" @@ "K" :> "k" @@ "L" :> "l"
    @@ "M" :> "m" @@ "N" :> "n" @@ "O" :> "o" @@ "P" :> "p" @@ "Q" :> "q" @@ "R" :> "r"
    @@ "S" :> "s" @@ "T" :> "t" @@ "U" :> "u" @@ "V" :> "v" @@ "W" :> "w" @@ "X" :> "x"
    @@ "Y" :> "y" @@ "Z" :> "z"

ToLower(s) ==
    [ k \in 1..Len(s) |-> IF s[k] \in DOMAIN UpperToLower THEN UpperToLower[s[k]] ELSE s[k] ]

\* the white space of the model's alphabet
IsSpace(c) == c \in {" ", "\t", "\n"}

\* strings.TrimSpace
TrimSpace(s) ==
    IF \A k \in 1..Len(s) : IsSpace(s[k])
    THEN Empty
    ELSE LET first == CHOOSE k \in 1..Len(s) :
                         ~IsSpace(s[k]) /\ \A j \in 1..(k - 1) : IsSpace(s[j])
             last  == CHOOSE k \in 1..Len(s) :
                         ~IsSpace(s[k]) /\ \A j \in (k + 1)..Len(s) : IsSpace(s[j])
         IN  SubSeq(s, first, last)

\* strings.Fields: the maximal runs of non-space characters, in order
RECURSIVE Fields(_)
Fields(s) ==
    IF \A k \in 1..Len(s) : IsSpace(s[k])
    THEN << >>
    ELSE LET first == CHOOSE k \in 1..Len(s) :
                         ~IsSpace(s[k]) /\ \A j \in 1..(k - 1) : IsSpace(s[j])
             rest  == SubSeq(s, first, Len(s))
             stop  == IF \E k \in 1..Len(rest) : IsSpace(rest[k])
                      THEN (CHOOSE k \in 1..Len(rest) :
                               IsSpace(rest[k]) /\ \A j \in 1..(k - 1) : ~IsSpace(rest[j])) - 1
                      ELSE Len(rest)
         IN  << SubSeq(rest, 1, stop) >> \o Fields(SubSeq(rest, stop + 1, Len(rest)))

\* strings.Join
RECURSIVE Join(_, _)
Join(parts, sep) ==
    IF Len(parts) = 0 THEN Empty
    ELSE IF Len(parts) = 1 THEN parts[1]
    ELSE parts[1] \o sep \o Join(Tail(parts), sep)

\* every sequence of elements of S of length at most n
SeqsUpTo(S, n) == UNION { [1..k -> S] : k \in 0..n }

\* every order in which a Go map with key set K may be ranged over
Orders(K) == { o \in [1..Cardinality(K) -> K] : \A a, b \in DOMAIN o : o[a] = o[b] => a = b }


---------------------------------------------------------------------------
(* The literals of the program *)

s_api == << "-", "a", "p", "i" >>
s_ui == << "-", "u", "i" >>
s_py == << "-", "p", "y" >>
s_python == << "p", "y", "t", "h", "o", "n" >>
s_poetry == << "p", "o", "e", "t", "r", "y" >>
s_python_project == << "python-project" >>
s_license_xlsx == << "_license.xlsx" >>
s_go == << "go" >>
s_npm == << "npm" >>
s_pypi == << "pypi" >>
s_at_v == << "/", "@", "v", "/" >>
s_info == << ".", "i", "n", "f", "o" >>
s_slash == << "/" >>
s_json == << "/", "j", "s", "o", "n" >>
s_pkg_go_dev == << "https://pkg.go.dev/" >>
s_registry_npmjs == << "https://registry.npmjs.org/" >>
s_pypi_org == << "https://pypi.org/pypi/" >>
s_licenses_nuget == << "https://licenses.nuget.org/" >>
s_Copyright == << " ", "C", "o", "p", "y", "r", "i", "g", "h", "t" >>
\* the one character U+00A9, the copyright sign
s_copyright_sign == << "(C)" >>
s_parse_failed == << "Failed to parse file: " >>
s_progress_failed == << "Create progress dialog failed: " >>
s_save_failed == << "Failed to save Excel file: " >>

s_copyright ==
    << "c", "o", "p", "y", "r", "i", "g", "h", "t" >>
s_license ==
    << "l", "i", "c", "e", "n", "s", "e" >>
s_github ==
    << "g", "i", "t", "h", "u", "b" >>
s_source ==
    << "s", "o", "u", "r", "c", "e" >>
s_repository ==
    << "r", "e", "p", "o", "s", "i", "t", "o", "r", "y" >>
s_github_com ==
    << "g", "i", "t", "h", "u", "b", ".", "c", "o", "m", "/" >>
s_https ==
    << "h", "t", "t", "p", "s", ":", "/", "/" >>
s_pkg_go_dev_host ==
    << "p", "k", "g", ".", "g", "o", ".", "d", "e", "v" >>
s_not_legal_advice ==
    << "n", "o", "t", " ", "l", "e", "g", "a", "l", " ", "a", "d", "v", "i", "c", "e" >>
s_sep ==
    << " ", ":", ":", " " >>
s_License_prefix ==
    << "L", "i", "c", "e", "n", "s", "e", " ", ":", ":", " " >>
s_Apache ==
    << "A", "p", "a", "c", "h", "e" >>
s_MIT ==
    << "M", "I", "T" >>
s_BSD ==
    << "B", "S", "D" >>
s_GPL ==
    << "G", "P", "L" >>
s_Apache_2_0 ==
    << "A", "p", "a", "c", "h", "e", "-", "2", ".", "0" >>
s_BSD_3_Clause ==
    << "B", "S", "D", "-", "3", "-", "C", "l", "a", "u", "s", "e" >>
s_MPL_2_0 ==
    << "M", "P", "L", "-", "2", ".", "0" >>
s_GPL_3_0 ==
    << "G", "P", "L", "-", "3", ".", "0" >>
s_GPL_2_0 ==
    << "G", "P", "L", "-", "2", ".", "0" >>
s_LGPL_3_0 ==
    << "L", "G", "P", "L", "-", "3", ".", "0" >>
s_LGPL_2_0 ==
    << "L", "G", "P", "L", "-", "2", ".", "0" >>
c_Apache ==
    << "A", "p", "a", "c", "h", "e", " ", "S", "o", "f", "t", "w", "a", "r", "e", " ", "L",
       "i", "c", "e", "n", "s", "e" >>
c_BSD ==
    << "B", "S", "D", " ", "L", "i", "c", "e", "n", "s", "e" >>
c_MIT ==
    << "M", "I", "T", " ", "L", "i", "c", "e", "n", "s", "e" >>
c_MPL ==
    << "M", "o", "z", "i", "l", "l", "a", " ", "P", "u", "b", "l", "i", "c", " ", "L", "i",
       "c", "e", "n", "s", "e", " ", "2", ".", "0", " ", "(", "M", "P", "L", " ", "2", ".",
       "0", ")" >>
c_GPLv3 ==
    << "G", "N", "U", " ", "G", "e", "n", "e", "r", "a", "l", " ", "P", "u", "b", "l", "i",
       "c", " ", "L", "i", "c", "e", "n", "s", "e", " ", "v", "3", " ", "(", "G", "P", "L",
       "v", "3", ")" >>
c_GPLv2 ==
    << "G", "N", "U", " ", "G", "e", "n", "e", "r", "a", "l", " ", "P", "u", "b", "l", "i",
       "c", " ", "L", "i", "c", "e", "n", "s", "e", " ", "v", "2", " ", "(", "G", "P", "L",
       "v", "2", ")" >>
c_LGPLv3 ==
    << "G", "N", "U", " ", "L", "e", "s", "s", "e", "r", " ", "G", "e", "n", "e", "r", "a",
       "l", " ", "P", "u", "b", "l", "i", "c", " ", "L", "i", "c", "e", "n", "s", "e", " ",
       "v", "3", " ", "(", "L", "G", "P", "L", "v", "3", ")" >>
c_LGPLv2 ==
    << "G", "N", "U", " ", "L", "e", "s", "s", "e", "r", " ", "G", "e", "n", "e", "r", "a",
       "l", " ", "P", "u", "b", "l", "i", "c", " ", "L", "i", "c", "e", "n", "s", "e", " ",
       "v", "2", " ", "(", "L", "G", "P", "L", "v", "2", ")" >>

---------------------------------------------------------------------------
(* Package, and the manifests a run may be given *)

\* type Package
Package(path, version, goMod, pyProject) ==
    [ Path |-> path, Version |-> version, GoMod |-> goMod, PyProject |-> pyProject ]

\* a go.mod file: whether os.ReadFile and modfile.ParseLax succeed on it, whether it
\* has a module directive (modfile leaves File.Module nil without one), its module
\* path and its require directives as << path, version >> pairs
GoModFile(readable, wellFormed, hasModule, require) ==
    [ file |-> "go.mod", readable |-> readable, wellFormed |-> wellFormed,
      hasModule |-> hasModule,
      module |-> IF hasModule THEN << "l", "i", "c" >> ELSE Empty,
      require |-> require ]

\* a package.json file: name, and the two maps as functions from key to version
PackageJSONFile(readable, wellFormed, name, deps, devDeps) ==
    [ file |-> "package.json", readable |-> readable, wellFormed |-> wellFormed,
      name |-> name, dependencies |-> deps, devDependencies |-> devDeps ]

\* a pyproject.toml file; names is << project.name, tool.poetry.name >>, and a Poetry
\* table that is absent is a map with no key
PyProjectFile(readable, wellFormed, names, projectDeps, poetryDeps, poetryDevDeps) ==
    [ file |-> "pyproject.toml", readable |-> readable, wellFormed |-> wellFormed,
      projectName |-> names[1], projectDependencies |-> projectDeps,
      poetryName |-> names[2], poetryDependencies |-> poetryDeps,
      poetryDevDependencies |-> poetryDevDeps ]

\* every map from a set of at most n of the keys to the values
MapsUpTo(keys, values, n) ==
    UNION { [K -> values] : K \in { K \in SUBSET keys : Cardinality(K) <= n } }

NoMap == [ k \in {} |-> Empty ]

v_go == << "v", "1" >>
p_github == << "g", "i", "t", "h", "u", "b", ".", "c", "o", "m", "/", "u", "/", "r" >>
p_uber == << "g", "o", ".", "u", "b", "e", "r", ".", "o", "r", "g", "/", "z" >>
n_leftpad == << "l", "e", "f", "t", "-", "p", "a", "d" >>
n_jest == << "j", "e", "s", "t" >>
n_control == << "a", "\n" >>
n_requests == << "r", "e", "q", "u", "e", "s", "t", "s" >>
v_caret == << "^", "1", ".", "3", ".", "0" >>
v_ge == << ">", "=", "2", ".", "0", ".", "0" >>
d_requests == n_requests \o v_ge
d_blank == << " " >>

GoModFiles ==
    { GoModFile(FALSE, FALSE, FALSE, << >>), GoModFile(TRUE, FALSE, FALSE, << >>) }
    \cup { GoModFile(TRUE, TRUE, h, r) :
             h \in BOOLEAN,
             r \in SeqsUpTo({ << p_github, v_go >>, << p_uber, v_go >> }, MaxDeps) }

PackageJSONFiles ==
    { PackageJSONFile(FALSE, FALSE, Empty, NoMap, NoMap),
      PackageJSONFile(TRUE, FALSE, Empty, NoMap, NoMap) }
    \cup { PackageJSONFile(TRUE, TRUE, n, d, dd) :
             n \in { Empty, << "a", "p", "p" >> },
             d \in MapsUpTo({ Empty, n_leftpad, n_control }, { v_caret }, MaxDeps),
             dd \in MapsUpTo({ n_jest }, { Empty }, 1) }

PyProjectFiles ==
    { PyProjectFile(FALSE, FALSE, << Empty, Empty >>, << >>, NoMap, NoMap),
      PyProjectFile(TRUE, FALSE, << Empty, Empty >>, << >>, NoMap, NoMap) }
    \cup { PyProjectFile(TRUE, TRUE, << pn, tn >>, pd, td, NoMap) :
             pn \in { Empty, << "p" >> },
             tn \in { Empty, << "t" >> },
             pd \in SeqsUpTo({ d_requests, d_blank }, MaxDeps - 1),
             td \in MapsUpTo({ s_python, n_requests }, { v_caret }, MaxDeps - 1) }
    \cup { PyProjectFile(TRUE, TRUE, << Empty, Empty >>, << >>, NoMap, dd) :
             dd \in MapsUpTo({ Empty, s_poetry \o << "-", "x" >> }, { Empty }, MaxDeps) }

\* the manifests of the model: those above that declare at most MaxDeps entries
DeclaredEntries(m) ==
    IF m.file = "go.mod" THEN Len(m.require)
    ELSE IF m.file = "package.json"
    THEN Cardinality(DOMAIN m.dependencies) + Cardinality(DOMAIN m.devDependencies)
    ELSE Cardinality(DOMAIN m.poetryDependencies)
         + Cardinality(DOMAIN m.poetryDevDependencies) + Len(m.projectDependencies)

Manifests ==
    { m \in GoModFiles \cup PackageJSONFiles \cup PyProjectFiles :
        DeclaredEntries(m) <= MaxDeps }

---------------------------------------------------------------------------
(* The manifest parsers.  A parser's outcome is its three results and       *)
(* whether it panicked; err is << >> for a nil error.                       *)

ParseOutcome(pkgs, name, err, panicked) ==
    [ packages |-> pkgs, moduleName |-> name, err |-> err, panicked |-> panicked ]

e_read == << "open: no such file or directory" >>
e_syntax == << "syntax error" >>

\* func parseGoMod
parseGoMod(m) ==
    IF ~m.readable THEN ParseOutcome(<< >>, Empty, e_read, FALSE)
    ELSE IF ~m.wellFormed THEN ParseOutcome(<< >>, Empty, e_syntax, FALSE)
    ELSE LET pkgs == [ k \in 1..Len(m.require) |->
                         Package(m.require[k][1], m.require[k][2], TRUE, FALSE) ]
         IN  IF ~m.hasModule
             THEN \* file.Module is nil: file.Module.Mod.Path panics
                  ParseOutcome(<< >>, Empty, Empty, TRUE)
             ELSE ParseOutcome(pkgs, m.module \o s_api, Empty, FALSE)

\* the records appended by ranging over map mp in the order ord
FromMap(mp, ord, pyProject) ==
    [ k \in 1..Len(ord) |-> Package(ord[k], mp[ord[k]], FALSE, pyProject) ]

\* func parsePackageJSON, ranging over the two maps in the orders ord and devOrd
parsePackageJSON(m, ord, devOrd) ==
    IF ~m.readable THEN ParseOutcome(<< >>, Empty, e_read, FALSE)
    ELSE IF ~m.wellFormed THEN ParseOutcome(<< >>, Empty, e_syntax, FALSE)
    ELSE ParseOutcome(FromMap(m.dependencies, ord, FALSE)
                          \o FromMap(m.devDependencies, devOrd, FALSE),
                      m.name \o s_ui, Empty, FALSE)

\* PoetryKept, were only "python" skipped
PoetryKept_PythonOnly(ord) ==
    SelectSeq(ord, LAMBDA name : name # s_python)

\* the Poetry entries kept: not "python", and no name containing "poetry"
PoetryKept(ord) ==
    SelectSeq(ord, LAMBDA name : ~(name = s_python \/ Contains(name, s_poetry)))

\* one project.dependencies string: the record it yields, or none when it is blank
RECURSIVE FromProjectDependencies(_)
FromProjectDependencies(deps) ==
    IF Len(deps) = 0 THEN << >>
    ELSE LET parts == Fields(Head(deps))
         IN  (IF Len(parts) > 0
              THEN << Package(parts[1],
                              IF Len(parts) > 1 THEN Join(Tail(parts), << " " >>) ELSE Empty,
                              FALSE, TRUE) >>
              ELSE << >>)
             \o FromProjectDependencies(Tail(deps))

\* parsePyProjectToml, were the name of the project table taken before Poetry's
parsePyProjectToml_ProjectNameFirst(m, ord, devOrd) ==
    IF ~m.readable THEN ParseOutcome(<< >>, Empty, e_read, FALSE)
    ELSE IF ~m.wellFormed THEN ParseOutcome(<< >>, Empty, e_syntax, FALSE)
    ELSE LET projectName ==
                 IF m.projectName # Empty THEN m.projectName
                 ELSE IF m.poetryName # Empty THEN m.poetryName
                 ELSE s_python_project
         IN  ParseOutcome(FromMap(m.poetryDependencies, PoetryKept(ord), TRUE)
                              \o FromMap(m.poetryDevDependencies, PoetryKept(devOrd), TRUE)
                              \o FromProjectDependencies(m.projectDependencies),
                          projectName \o s_py, Empty, FALSE)

\* func parsePyProjectToml, ranging over the two Poetry maps in the orders ord and devOrd
parsePyProjectToml(m, ord, devOrd) ==
    IF ~m.readable THEN ParseOutcome(<< >>, Empty, e_read, FALSE)
    ELSE IF ~m.wellFormed THEN ParseOutcome(<< >>, Empty, e_syntax, FALSE)
    ELSE LET projectName ==
                 IF m.poetryName # Empty THEN m.poetryName
                 ELSE IF m.projectName # Empty THEN m.projectName
                 ELSE s_python_project
         IN  ParseOutcome(FromMap(m.poetryDependencies, PoetryKept(ord), TRUE)
                              \o FromMap(m.poetryDevDependencies, PoetryKept(devOrd), TRUE)
                              \o FromProjectDependencies(m.projectDependencies),
                          projectName \o s_py, Empty, FALSE)

\* main.go:1187-1199: the parser main picks by the file name, with every outcome the
\* iteration order of the manifest's maps allows
ParseFile(m) ==
    IF m.file = "go.mod" THEN { parseGoMod(m) }
    ELSE IF m.file = "pyproject.toml"
    THEN { parsePyProjectToml(m, o, d) :
             o \in Orders(DOMAIN m.poetryDependencies),
             d \in Orders(DOMAIN m.poetryDevDependencies) }
    ELSE { parsePackageJSON(m, o, d) :
             o \in Orders(DOMAIN m.dependencies), d \in Orders(DOMAIN m.devDependencies) }

---------------------------------------------------------------------------
(* PackageInfo, and what a registry may answer *)

\* type PackageInfo, every field the empty string
NoInfo ==
    [ Name |-> Empty, Version |-> Empty, License |-> Empty, LicenseURL |-> Empty,
      Author |-> Empty, Description |-> Empty, Copyright |-> Empty, PackageURL |-> Empty,
      GitHubURL |-> Empty, RepositoryType |-> Empty, Repository |-> Empty,
      ModuleNameNoVer |-> Empty ]

\* what a resolver call comes to: the record it returns, or a panic, and whether the
\* response body it obtained (if any) was closed
Returned(info, obtained, closed) ==
    [ info |-> info, panicked |-> FALSE, bodyObtained |-> obtained, bodyClosed |-> closed ]

Panicked(obtained, closed) ==
    [ info |-> NoInfo, panicked |-> TRUE, bodyObtained |-> obtained, bodyClosed |-> closed ]

\* the outcome of http.NewRequestWithContext and client.Do: whether the request could
\* be built (sent), whether Do returned an error (a transport error or a deadline),
\* the status code and the body
Response(sent, err, status, body) ==
    [ sent |-> sent, err |-> err, status |-> status, body |-> body ]

\* a body the decoder (json.Decoder.Decode, htmlquery.Parse) accepts, and one it
\* rejects: malformed, of the wrong shape, or cut short by the deadline
Body(doc) == [ ok |-> TRUE, doc |-> doc ]
BadBody == [ ok |-> FALSE, doc |-> << >> ]

\* net/url rejects a URL that holds an ASCII control character
ValidURL(url) == \A k \in 1..Len(url) : url[k] \notin { "\n", "\t" }

\* JSON values, as encoding/json decodes them into an `any`
JNull == [ t |-> "null" ]
JNumber == [ t |-> "number" ]
JString(s) == [ t |-> "string", s |-> s ]
JObject(f) == [ t |-> "object", f |-> f ]

---------------------------------------------------------------------------
(* getNPMMetadata *)

\* main.go:1046-1051
InfoNPM(pkg) ==
    [ NoInfo EXCEPT !.Name = pkg.Path, !.Version = pkg.Version,
                    !.ModuleNameNoVer = pkg.Path, !.RepositoryType = s_npm ]

\* NpmCleanVersion without the inner TrimPrefix of main.go:1054
NpmCleanVersion_TildeOnly(v) == TrimPrefix(v, << "~" >>)

\* main.go:1054: strings.TrimPrefix(strings.TrimPrefix(pkg.Version, "^"), "~")
NpmCleanVersion(v) == TrimPrefix(TrimPrefix(v, << "^" >>), << "~" >>)

\* main.go:1072: the URL of the request
NpmRequestURL(pkg) ==
    s_registry_npmjs \o pkg.Path \o s_slash \o NpmCleanVersion(pkg.Version)

\* the decoded npmPkg struct of main.go:1080-1094; Author is a JSON value, and each
\* maintainer a map from some of "name", "email" to strings
NpmDoc(license, licenses, author, maintainers, description, repoURL, homepage, readme) ==
    [ License |-> license, Licenses |-> licenses, Author |-> author,
      Maintainers |-> maintainers, Description |-> description,
      RepositoryURL |-> repoURL, Homepage |-> homepage, Readme |-> readme ]

\* main.go:1107-1115: the author of the primary field; a name or email that is not
\* a string fails the type assertion name.(string), which panics
NpmPrimaryAuthor(author) ==
    IF author.t = "object"
    THEN IF "name" \in DOMAIN author.f
         THEN IF author.f["name"].t = "string"
              THEN [ panicked |-> FALSE, author |-> author.f["name"].s ]
              ELSE [ panicked |-> TRUE, author |-> Empty ]
         ELSE IF "email" \in DOMAIN author.f
         THEN IF author.f["email"].t = "string"
              THEN [ panicked |-> FALSE, author |-> author.f["email"].s ]
              ELSE [ panicked |-> TRUE, author |-> Empty ]
         ELSE [ panicked |-> FALSE, author |-> Empty ]
    ELSE IF author.t = "string" /\ author.s # Empty
    THEN [ panicked |-> FALSE, author |-> author.s ]
    ELSE [ panicked |-> FALSE, author |-> Empty ]

\* main.go:1118-1124
NpmMaintainerAuthor(author, maintainers) ==
    IF author = Empty /\ Len(maintainers) > 0
    THEN IF "name" \in DOMAIN maintainers[1] THEN maintainers[1]["name"]
         ELSE IF "email" \in DOMAIN maintainers[1] THEN maintainers[1]["email"]
         ELSE author
    ELSE author

\* main.go:1141-1147: the first README line that mentions a copyright, trimmed
ReadmeCopyright(readme) ==
    LET lines == Split(readme, << "\n" >>)
        hit(k) == Contains(ToLower(lines[k]), s_copyright)
                  \/ Contains(lines[k], s_copyright_sign)
    IN  IF \E k \in 1..Len(lines) : hit(k)
        THEN TrimSpace(lines[CHOOSE k \in 1..Len(lines) : hit(k) /\ \A j \in 1..(k - 1) : ~hit(j)])
        ELSE Empty

\* main.go:1098-1104
NpmLicense(info, doc) ==
    IF doc.License # Empty
    THEN [ info EXCEPT !.License = doc.License,
                       !.LicenseURL = s_licenses_nuget \o doc.License ]
    ELSE IF Len(doc.Licenses) > 0
    THEN [ info EXCEPT !.License = doc.Licenses[1],
                       !.LicenseURL = s_licenses_nuget \o doc.Licenses[1] ]
    ELSE info

\* main.go:1107-1126, the type assertions having held
NpmAuthor(info, doc) ==
    [ info EXCEPT
        !.Author = NpmMaintainerAuthor(NpmPrimaryAuthor(doc.Author).author, doc.Maintainers),
        !.Description = doc.Description ]

\* main.go:1129-1134
NpmRepository(info, doc) ==
    IF doc.RepositoryURL # Empty
    THEN [ info EXCEPT !.Repository = doc.RepositoryURL, !.GitHubURL = doc.RepositoryURL ]
    ELSE IF doc.Homepage # Empty
    THEN [ info EXCEPT !.Repository = doc.Homepage ]
    ELSE info

\* main.go:1137-1148
NpmCopyright(info, doc) ==
    IF info.License # Empty
    THEN [ info EXCEPT !.Copyright = info.License \o s_Copyright ]
    ELSE IF doc.Readme # Empty
    THEN [ info EXCEPT !.Copyright = ReadmeCopyright(doc.Readme) ]
    ELSE info

\* main.go:1096-1148: the record filled from a decoded document
NpmFill(info, doc) ==
    IF NpmPrimaryAuthor(doc.Author).panicked
    THEN Panicked(TRUE, TRUE)
    ELSE Returned(NpmCopyright(NpmRepository(NpmAuthor(NpmLicense(info, doc), doc), doc), doc),
                  TRUE, TRUE)

\* getNPMMetadata without the test of the status at main.go:1077
getNPMMetadata_NoStatusCheck(pkg, resp) ==
    IF ~resp.sent THEN Returned(InfoNPM(pkg), FALSE, FALSE)
    ELSE IF resp.err THEN Returned(InfoNPM(pkg), FALSE, FALSE)
    ELSE IF ~resp.body.ok THEN Returned(InfoNPM(pkg), TRUE, TRUE)
    ELSE NpmFill(InfoNPM(pkg), resp.body.doc)

\* func getNPMMetadata, given what the registry answers
getNPMMetadata(pkg, resp) ==
    IF ~resp.sent THEN Returned(InfoNPM(pkg), FALSE, FALSE)
    ELSE IF resp.err THEN Returned(InfoNPM(pkg), FALSE, FALSE)
    ELSE IF resp.status # 200 THEN Returned(InfoNPM(pkg), TRUE, FALSE)
    ELSE IF ~resp.body.ok THEN Returned(InfoNPM(pkg), TRUE, TRUE)
    ELSE NpmFill(InfoNPM(pkg), resp.body.doc)

---------------------------------------------------------------------------
(* getPyPI_Metadata *)

\* main.go:699-704
InfoPyPI(pkg) ==
    [ NoInfo EXCEPT !.Name = pkg.Path, !.Version = pkg.Version,
                    !.ModuleNameNoVer = pkg.Path, !.RepositoryType = s_pypi ]

\* main.go:707-716: the chain of TrimPrefix calls, then the two splits
PyPICleanVersion(v) ==
    LET t0 == TrimSpace(v)
        t1 == TrimPrefix(t0, << ">", "=" >>)
        t2 == TrimPrefix(t1, << "=", "=" >>)
        t3 == TrimPrefix(t2, << ">" >>)
        t4 == TrimPrefix(t3, << "<", "=" >>)
        t5 == TrimPrefix(t4, << "<" >>)
        t6 == TrimPrefix(t5, << "~", "=" >>)
        t7 == TrimPrefix(t6, << "^" >>)
    IN  Split(Split(t7, << "," >>)[1], << " " >>)[1]

\* main.go:735: the URL of the request
PyPIRequestURL(pkg) == s_pypi_org \o pkg.Path \o s_json

\* the decoded pypiPkg struct of main.go:747-766: project_urls a map from key to URL,
\* releases a map from version to the upload times of its files
PyPIDoc(authors, classifiers, texts, homePage, license, projectURLs, releases) ==
    [ Author |-> authors[1], AuthorEmail |-> authors[2], Classifiers |-> classifiers,
      Summary |-> texts[1], Description |-> texts[2], Home_page |-> homePage,
      License |-> license, Project_urls |-> projectURLs, Releases |-> releases ]

\* main.go:777-796: the switch on a classifier's last segment
ClassifierLicense(licenseName) ==
    CASE licenseName = c_Apache -> s_Apache_2_0
      [] licenseName = c_BSD -> s_BSD_3_Clause
      [] licenseName = c_MIT -> s_MIT
      [] licenseName = c_MPL -> s_MPL_2_0
      [] licenseName = c_GPLv3 -> s_GPL_3_0
      [] licenseName = c_GPLv2 -> s_GPL_2_0
      [] licenseName = c_LGPLv3 -> s_LGPL_3_0
      [] licenseName = c_LGPLv2 -> s_LGPL_2_0
      [] OTHER -> licenseName

\* main.go:807-819: the chain of strings.Contains checks on the license field
FreeTextLicense(licenseText) ==
    IF Contains(licenseText, s_Apache) THEN s_Apache_2_0
    ELSE IF Contains(licenseText, s_MIT) THEN s_MIT
    ELSE IF Contains(licenseText, s_BSD) THEN s_BSD_3_Clause
    ELSE IF Contains(licenseText, s_GPL) /\ Contains(licenseText, << "3" >>) THEN s_GPL_3_0
    ELSE IF Contains(licenseText, s_GPL) /\ Contains(licenseText, << "2" >>) THEN s_GPL_2_0
    ELSE licenseText

\* main.go:771-773: a classifier the loop stops at
IsLicenseClassifier(c) == HasPrefix(c, s_License_prefix) /\ Len(Split(c, s_sep)) >= 3

\* main.go:770-801: License and LicenseURL from the first license classifier
PyPIClassifierLicense(info, cs) ==
    IF \E k \in 1..Len(cs) : IsLicenseClassifier(cs[k])
    THEN LET c == cs[CHOOSE k \in 1..Len(cs) :
                       IsLicenseClassifier(cs[k])
                       /\ \A j \in 1..(k - 1) : ~IsLicenseClassifier(cs[j])]
             parts == Split(c, s_sep)
         IN  [ info EXCEPT
                 !.License = ClassifierLicense(parts[Len(parts)]),
                 !.LicenseURL = s_licenses_nuget \o ClassifierLicense(parts[Len(parts)]) ]
    ELSE info

\* main.go:804-821: License and LicenseURL from the license field
PyPIFieldLicense(info, doc) ==
    IF info.License = Empty /\ doc.License # Empty
    THEN [ info EXCEPT !.License = FreeTextLicense(doc.License),
                       !.LicenseURL = s_licenses_nuget \o FreeTextLicense(doc.License) ]
    ELSE info

\* PyPILicense, were the license field consulted before the classifiers
PyPILicense_FieldFirst(info, doc) ==
    IF doc.License # Empty THEN PyPIFieldLicense(info, doc)
    ELSE PyPIClassifierLicense(info, doc.Classifiers)

\* main.go:770-821: License and LicenseURL
PyPILicense(info, doc) == PyPIFieldLicense(PyPIClassifierLicense(info, doc.Classifiers), doc)

\* main.go:844-854: the loop over project_urls, visited in the order ord
RECURSIVE ProjectURLs(_, _, _)
ProjectURLs(info, urls, ord) ==
    IF Len(ord) = 0 THEN info
    ELSE LET key == Head(ord)
             url == urls[key]
         IN  IF Contains(ToLower(url), s_github)
             THEN [ info EXCEPT !.GitHubURL = url ]
             ELSE ProjectURLs(
                      IF Contains(ToLower(key), s_source) \/ Contains(ToLower(key), s_repository)
                      THEN [ info EXCEPT !.Repository = url ]
                      ELSE info,
                      urls, Tail(ord))

\* the byte order of the characters upload times are written in
ByteOrder == << " ", "-", ".", "0", "1", "2", "3", "4", "5", "6", "7", "8", "9", ":", "T", "Z" >>

ByteOf(c) == CHOOSE k \in 1..Len(ByteOrder) : ByteOrder[k] = c

\* the > of Go strings: byte-wise lexicographic order
RECURSIVE StringGreater(_, _)
StringGreater(a, b) ==
    IF Len(a) = 0 THEN FALSE
    ELSE IF Len(b) = 0 THEN TRUE
    ELSE IF Head(a) # Head(b) THEN ByteOf(Head(a)) > ByteOf(Head(b))
    ELSE StringGreater(Tail(a), Tail(b))

\* LatestRelease, were the first release visited taken without comparing upload times
LatestRelease_FirstVisited(latest, releases, ord) ==
    IF Len(ord) = 0 \/ Len(releases[Head(ord)]) = 0 THEN latest
    ELSE << Head(ord), releases[Head(ord)][1] >>

\* main.go:864-874: the loop over releases in the order ord; latest is
\* << latestVersion, latestTime >>
RECURSIVE LatestRelease(_, _, _)
LatestRelease(latest, releases, ord) ==
    IF Len(ord) = 0 THEN latest
    ELSE LET ver == Head(ord)
             files == releases[ver]
         IN  LatestRelease(
                 IF Len(files) > 0 /\ StringGreater(files[1], latest[2])
                 THEN << ver, files[1] >>
                 ELSE latest,
                 releases, Tail(ord))

\* main.go:824-828
PyPIAuthor(info, doc) ==
    IF doc.Author # Empty THEN [ info EXCEPT !.Author = doc.Author ]
    ELSE IF doc.AuthorEmail # Empty THEN [ info EXCEPT !.Author = doc.AuthorEmail ]
    ELSE info

\* main.go:831-835
PyPIDescription(info, doc) ==
    IF doc.Summary # Empty THEN [ info EXCEPT !.Description = doc.Summary ]
    ELSE IF doc.Description # Empty THEN [ info EXCEPT !.Description = doc.Description ]
    ELSE info

\* main.go:838-841
PyPIHomePage(info, doc) ==
    IF doc.Home_page # Empty
    THEN [ info EXCEPT !.Repository = doc.Home_page, !.GitHubURL = doc.Home_page ]
    ELSE info

\* main.go:857-859
PyPICopyright(info) ==
    IF info.License # Empty
    THEN [ info EXCEPT !.Copyright = info.License \o s_Copyright ]
    ELSE info

\* main.go:862-880: the version of the record, version being the cleaned constraint
PyPIVersion(info, version, releases, relOrd) ==
    IF version = Empty /\ Cardinality(DOMAIN releases) > 0
    THEN IF LatestRelease(<< Empty, Empty >>, releases, relOrd)[1] # Empty
         THEN [ info EXCEPT !.Version = LatestRelease(<< Empty, Empty >>, releases, relOrd)[1] ]
         ELSE info
    ELSE IF version # Empty THEN [ info EXCEPT !.Version = version ]
    ELSE info

\* main.go:768-880: the record filled from a decoded document
PyPIFill(info, version, doc, urlOrd, relOrd) ==
    PyPIVersion(
        PyPICopyright(
            ProjectURLs(
                PyPIHomePage(PyPIDescription(PyPIAuthor(PyPILicense(info, doc), doc), doc), doc),
                doc.Project_urls, urlOrd)),
        version, doc.Releases, relOrd)

\* func getPyPI_Metadata, given what the registry answers and the orders in which the
\* project_urls and releases maps are ranged over
getPyPI_Metadata(pkg, resp, urlOrd, relOrd) ==
    IF ~resp.sent THEN Returned(InfoPyPI(pkg), FALSE, FALSE)
    ELSE IF resp.err THEN Returned(InfoPyPI(pkg), FALSE, FALSE)
    ELSE IF resp.status # 200 THEN Returned(InfoPyPI(pkg), TRUE, FALSE)
    ELSE IF ~resp.body.ok THEN Returned(InfoPyPI(pkg), TRUE, TRUE)
    ELSE Returned(PyPIFill(InfoPyPI(pkg), PyPICleanVersion(pkg.Version), resp.body.doc,
                           urlOrd, relOrd),
                  TRUE, TRUE)

---------------------------------------------------------------------------
(* getGoModMetadata *)

\* main.go:888-893
InfoGo(pkg) ==
    [ NoInfo EXCEPT !.Name = pkg.Path, !.Version = pkg.Version,
                    !.PackageURL = pkg.Path \o s_at_v \o pkg.Version \o s_info,
                    !.RepositoryType = s_go ]

\* main.go:911: the URL of the request
GoRequestURL(pkg) == s_pkg_go_dev \o pkg.Path

\* what htmlquery.FindOne gives for one selector: no node, or a node with its inner
\* text and its href attribute
NoNode == [ found |-> FALSE, text |-> Empty, href |-> Empty ]
Node(text, href) == [ found |-> TRUE, text |-> text, href |-> href ]

\* the parsed page, as what each selector of the resolver finds in it, the selectors
\* of one field in the order the code tries them
GoDoc(license, description, repository, author, copyright) ==
    [ License |-> license, Description |-> description, Repository |-> repository,
      Author |-> author, Copyright |-> copyright ]

\* `node := FindOne(a); if node == nil { node = FindOne(b) } ...`: the first node found
FirstFound(nodes) ==
    IF \E k \in 1..Len(nodes) : nodes[k].found
    THEN nodes[CHOOSE k \in 1..Len(nodes) :
                  nodes[k].found /\ \A j \in 1..(k - 1) : ~nodes[j].found]
    ELSE NoNode

\* main.go:995
MaxAuthorLen == 100

\* main.go:966-968: a repository node whose href is taken
RepositoryOK(node) ==
    node.found /\ node.href # Empty /\ ~Contains(node.href, s_pkg_go_dev_host)

\* main.go:992-995: an author node whose text is taken
AuthorOK(node) ==
    /\ node.found
    /\ TrimSpace(node.text) # Empty
    /\ ~Contains(ToLower(TrimSpace(node.text)), s_license)
    /\ ~Contains(ToLower(TrimSpace(node.text)), s_copyright)
    /\ Len(TrimSpace(node.text)) < MaxAuthorLen

\* main.go:1003-1018: the author inferred from the module path
InferredAuthor(path) ==
    LET parts == Split(path, s_slash)
        fromGitHub == IF Contains(path, s_github_com) /\ Len(parts) >= 2 THEN parts[2] ELSE Empty
    IN  IF fromGitHub = Empty /\ Contains(path, s_slash) /\ Len(parts) >= 2
        THEN parts[1]
        ELSE fromGitHub

\* main.go:964-973: the node of the first repository selector whose href is taken
FirstRepository(nodes) ==
    IF \E k \in 1..Len(nodes) : RepositoryOK(nodes[k])
    THEN nodes[CHOOSE k \in 1..Len(nodes) :
                  RepositoryOK(nodes[k]) /\ \A j \in 1..(k - 1) : ~RepositoryOK(nodes[j])]
    ELSE NoNode

\* main.go:990-1000: the node of the first author selector whose text is taken
FirstAuthor(nodes) ==
    IF \E k \in 1..Len(nodes) : AuthorOK(nodes[k])
    THEN nodes[CHOOSE k \in 1..Len(nodes) :
                  AuthorOK(nodes[k]) /\ \A j \in 1..(k - 1) : ~AuthorOK(nodes[j])]
    ELSE NoNode

\* main.go:926-939
GoLicense(info, node) ==
    IF node.found /\ ~Contains(TrimSpace(node.text), s_not_legal_advice)
       /\ TrimSpace(node.text) # Empty
    THEN [ info EXCEPT !.License = TrimSpace(node.text),
                       !.LicenseURL = s_licenses_nuget \o TrimSpace(node.text) ]
    ELSE info

\* main.go:942-954
GoDescription(info, node) ==
    IF node.found THEN [ info EXCEPT !.Description = TrimSpace(node.text) ] ELSE info

\* GoRepository without the synthesis of main.go:976-978
GoRepository_PageOnly(info, pkg, node) ==
    IF node.found THEN [ info EXCEPT !.GitHubURL = node.href ] ELSE info

\* main.go:964-978
GoRepository(info, pkg, node) ==
    IF node.found THEN [ info EXCEPT !.GitHubURL = node.href ]
    ELSE IF Contains(pkg.Path, s_github_com)
    THEN [ info EXCEPT !.GitHubURL = s_https \o pkg.Path ]
    ELSE info

\* main.go:990-1018
GoAuthor(info, pkg, node) ==
    IF node.found THEN [ info EXCEPT !.Author = TrimSpace(node.text) ]
    ELSE [ info EXCEPT !.Author = InferredAuthor(pkg.Path) ]

\* GoCopyright, were the page searched for a copyright before the license is looked at
GoCopyright_PageFirst(info, node) ==
    IF node.found /\ TrimSpace(node.text) # Empty
    THEN [ info EXCEPT !.Copyright = TrimSpace(node.text) ]
    ELSE IF info.License # Empty
    THEN [ info EXCEPT !.Copyright = info.License \o s_Copyright ]
    ELSE info

\* main.go:1021-1038
GoCopyright(info, node) ==
    IF info.License # Empty
    THEN [ info EXCEPT !.Copyright = info.License \o s_Copyright ]
    ELSE IF node.found /\ TrimSpace(node.text) # Empty
    THEN [ info EXCEPT !.Copyright = TrimSpace(node.text) ]
    ELSE info

\* main.go:924-1038: the record filled from the parsed page
GoFill(info, pkg, doc) ==
    GoCopyright(
        GoAuthor(
            GoRepository(
                GoDescription(GoLicense(info, FirstFound(doc.License)),
                              FirstFound(doc.Description)),
                pkg, FirstRepository(doc.Repository)),
            pkg, FirstAuthor(doc.Author)),
        FirstFound(doc.Copyright))

\* func getGoModMetadata, given what pkg.go.dev answers
getGoModMetadata(pkg, resp) ==
    IF ~resp.sent THEN Returned(InfoGo(pkg), FALSE, FALSE)
    ELSE IF resp.err THEN Returned(InfoGo(pkg), FALSE, FALSE)
    ELSE IF resp.status # 200 THEN Returned(InfoGo(pkg), TRUE, FALSE)
    ELSE IF ~resp.body.ok THEN Returned(InfoGo(pkg), TRUE, TRUE)
    ELSE Returned(GoFill(InfoGo(pkg), pkg, resp.body.doc), TRUE, TRUE)

---------------------------------------------------------------------------
(* What the registries answer in a run *)

\* main.go:917, 1078, 742: http.StatusOK
StatusOK == 200

\* the status codes a registry answers with
Statuses == { StatusOK, 404 }

t_author == << "A", "l" >>
t_description == << "d", "o", "c" >>
t_repository == << "g", "i", "t", ".", "x" >>
t_upload == << "2", "0", "2", "0" >>
t_classifier_MIT ==
    << "L", "i", "c", "e", "n", "s", "e", " ", ":", ":", " ", "O", "S", "I", " ", "A", "p",
       "p", "r", "o", "v", "e", "d", " ", ":", ":", " ", "M", "I", "T", " ", "L", "i", "c",
       "e", "n", "s", "e" >>

npm_full == NpmDoc(s_MIT, << >>, JString(t_author), << >>, t_description, t_repository, Empty, Empty)
npm_bare == NpmDoc(Empty, << >>, JNull, << >>, Empty, Empty, Empty, Empty)
npm_author_name_null ==
    NpmDoc(Empty, << >>, JObject("name" :> JNull), << >>, Empty, Empty, Empty, Empty)

pypi_full ==
    PyPIDoc(<< t_author, Empty >>, << t_classifier_MIT >>, << t_description, Empty >>,
            t_repository, Empty, NoMap, (<< "1" >> :> << t_upload >>))
pypi_bare == PyPIDoc(<< Empty, Empty >>, << >>, << Empty, Empty >>, Empty, Empty, NoMap, NoMap)

go_full ==
    GoDoc(<< Node(s_MIT, Empty), NoNode, NoNode >>,
          << NoNode, Node(t_description, Empty), NoNode, NoNode >>,
          << Node(Empty, t_repository), NoNode, NoNode, NoNode >>,
          << NoNode, NoNode, NoNode, NoNode, NoNode, NoNode >>,
          << NoNode, NoNode, NoNode >>)
go_bare ==
    GoDoc(<< NoNode, NoNode, NoNode >>, << NoNode, NoNode, NoNode, NoNode >>,
          << NoNode, NoNode, NoNode, NoNode >>,
          << NoNode, NoNode, NoNode, NoNode, NoNode, NoNode >>,
          << NoNode, NoNode, NoNode >>)

\* the bodies the registry of a manifest type answers with
Bodies(file) ==
    IF file = "go.mod" THEN { BadBody, Body(go_full), Body(go_bare) }
    ELSE IF file = "pyproject.toml" THEN { BadBody, Body(pypi_full), Body(pypi_bare) }
    ELSE { BadBody, Body(npm_full), Body(npm_bare), Body(npm_author_name_null) }

---------------------------------------------------------------------------
(* main *)

\* main.go:1223-1229: the header row of each manifest type
Header(file) ==
    IF file = "go.mod"
    THEN << << "Name" >>, << "License" >>, << "PackageVersion" >>, << "LicenseURL" >>,
            << "Author" >>, << "Description" >>, << "Copyright" >>, << "PackageURL" >>,
            << "GitHubURL" >>, << "RepositoryType" >> >>
    ELSE IF file = "pyproject.toml"
    THEN << << "Package Name" >>, << "License" >>, << "Version" >>, << "License URL" >>,
            << "Author" >>, << "Description" >>, << "Copyright" >>, << "Repository" >>,
            << "GitHub URL" >>, << "Repository Type" >> >>
    ELSE << << "Module Name" >>, << "License" >>, << "Repository" >>, << "License URL" >>,
            << "Author" >>, << "Description" >>, << "Copyright" >>, << "GitHub URL" >>,
            << "Module Name (No Version)" >>, << "Version" >> >>

\* main.go:1245-1256, 1263-1274, 1281-1292: the row written for a record
Row(file, info) ==
    IF file = "go.mod"
    THEN << info.Name, info.License, info.Version, info.LicenseURL, info.Author,
            info.Description, info.Copyright, info.PackageURL, info.GitHubURL,
            info.RepositoryType >>
    ELSE IF file = "pyproject.toml"
    THEN << info.Name, info.License, info.Version, info.LicenseURL, info.Author,
            info.Description, info.Copyright, info.Repository, info.GitHubURL,
            info.RepositoryType >>
    ELSE << info.Name \o << "@" >> \o info.Version, info.License, info.Repository,
            info.LicenseURL, info.Author, info.Description, info.Copyright, info.GitHubURL,
            info.ModuleNameNoVer, info.Version >>

\* main.go:1243, 1261, 1279: the resolver main calls for a manifest type
ResolverOf(file) ==
    IF file = "go.mod" THEN "getGoModMetadata"
    ELSE IF file = "pyproject.toml" THEN "getPyPI_Metadata"
    ELSE "getNPMMetadata"

\* RequestURL, were the dependencies of pyproject.toml sent to the resolver of package.json
RequestURL_NoPyPI(file, pkg) ==
    IF file = "go.mod" THEN GoRequestURL(pkg) ELSE NpmRequestURL(pkg)

\* the URL the resolver of a manifest type requests for pkg
RequestURL(file, pkg) ==
    IF file = "go.mod" THEN GoRequestURL(pkg)
    ELSE IF file = "pyproject.toml" THEN PyPIRequestURL(pkg)
    ELSE NpmRequestURL(pkg)

\* every outcome of the resolver call main makes for pkg, given what the registry
\* answers: one, but for the orders in which getPyPI_Metadata ranges over its maps
Resolve(file, pkg, resp) ==
    IF file = "go.mod" THEN { getGoModMetadata(pkg, resp) }
    ELSE IF file = "pyproject.toml"
    THEN IF resp.body.ok
         THEN { getPyPI_Metadata(pkg, resp, u, r) :
                  u \in Orders(DOMAIN resp.body.doc.Project_urls),
                  r \in Orders(DOMAIN resp.body.doc.Releases) }
         ELSE { getPyPI_Metadata(pkg, resp, << >>, << >>) }
    ELSE { getNPMMetadata(pkg, resp) }

\* main.go:897, 1058, 720 (and the context of 908, 1069, 731): the deadline of a
\* request, in seconds
ClientTimeout == 10

\* main.go:903, 1064, 726: the wait for the response headers, in seconds
ResponseHeaderTimeout == 5

\* no constraint normalized yet
NotNormalized == [ done |-> FALSE, pypi |-> Empty, npm |-> Empty, npmURL |-> Empty ]

\* no resolver called on its own, and no result of such a call
NoCall == [ file |-> "none", pkg |-> Package(Empty, Empty, FALSE, FALSE), resp |-> Response(FALSE, FALSE, 0, BadBody) ]
NoResult == [ done |-> FALSE, out |-> Returned(NoInfo, FALSE, FALSE) ]

\* no request in progress
Idle == [ phase |-> "idle", clock |-> 0, wait |-> 0 ]

Init ==
    /\ manifest \in Manifests
    /\ pc = "parse"
    /\ packages = << >>
    /\ moduleName = Empty
    /\ idx = 0
    /\ errorDialog = Empty
    /\ workbook = FALSE
    /\ sheet = << >>
    /\ savedAs = Empty
    /\ request = Idle
    /\ events = << >>
    /\ openBodies = 0
    /\ constraint = Empty
    /\ normalized = NotNormalized
    /\ call = NoCall
    /\ result = NoResult

\* ParseFailed, were main to show the error and go on to the report instead of returning
ParseFailed_GoesOn(res) ==
    /\ errorDialog' = s_parse_failed \o res.err
    /\ workbook' = TRUE
    /\ sheet' = (1 :> Header(manifest.file))
    /\ pc' = "loop"
    /\ UNCHANGED << packages, moduleName >>

\* main.go:1200-1203: the parser returned an error
ParseFailed(res) ==
    /\ errorDialog' = s_parse_failed \o res.err
    /\ pc' = "returned"
    /\ UNCHANGED << packages, moduleName, workbook, sheet >>

\* main.go:1205-1235: the parser returned no error; the progress dialog opens (or the
\* process exits), the workbook is created and the header row written
ParseSucceeded(res, dialogOpens) ==
    /\ packages' = res.packages
    /\ moduleName' = res.moduleName
    /\ IF dialogOpens
       THEN /\ workbook' = TRUE
            /\ sheet' = (1 :> Header(manifest.file))
            /\ pc' = "loop"
            /\ UNCHANGED errorDialog
       ELSE /\ errorDialog' = s_progress_failed
            /\ pc' = "exited"
            /\ UNCHANGED << workbook, sheet >>

\* main.go:1187-1235: main from the chosen file to the loop
Parse ==
    /\ pc = "parse"
    /\ \E res \in ParseFile(manifest) :
         IF res.panicked
         THEN pc' = "panicked" /\ UNCHANGED << packages, moduleName, errorDialog, workbook, sheet >>
         ELSE IF res.err # Empty
         THEN ParseFailed(res)
         ELSE \E dialogOpens \in BOOLEAN : ParseSucceeded(res, dialogOpens)
    /\ UNCHANGED << manifest, idx, savedAs, request, events, openBodies, funVars >>

\* the resolver call for packages[idx] comes to an end, the registry having answered
\* resp: it returns and main writes row idx+2 (main.go:1257-1260), or it panics;
\* evs is the history up to the call, why the way the exchange ended
Complete(evs, resp, why) ==
    \E out \in Resolve(manifest.file, packages[idx + 1], resp) :
        /\ events' = Append(evs, [ ev |-> IF out.panicked THEN "panic" ELSE "return",
                                   dep |-> idx + 1, why |-> why, info |-> out.info ])
        /\ openBodies' = openBodies + (IF out.bodyObtained /\ ~out.bodyClosed THEN 1 ELSE 0)
        /\ request' = Idle
        /\ IF out.panicked
           THEN pc' = "panicked" /\ UNCHANGED << sheet, idx >>
           ELSE /\ sheet' = ((idx + 2) :> Row(manifest.file, out.info)) @@ sheet
                /\ idx' = idx + 1
                /\ pc' = "loop"

\* main.go:1238-1244 and the resolver up to client.Do: the next iteration calls the
\* resolver, which builds its request; when http.NewRequestWithContext fails the
\* resolver returns at once
StartCall ==
    /\ pc = "loop"
    /\ idx < Len(packages)
    /\ LET pkg == packages[idx + 1]
           url == RequestURL(manifest.file, pkg)
           evs == Append(events, [ ev |-> "call", dep |-> idx + 1,
                                   resolver |-> ResolverOf(manifest.file), url |-> url ])
       IN  IF ValidURL(url)
           THEN /\ request' = [ phase |-> "connect", clock |-> 0, wait |-> 0 ]
                /\ events' = evs
                /\ pc' = "call"
                /\ UNCHANGED << sheet, idx, openBodies >>
           ELSE Complete(evs, Response(FALSE, FALSE, 0, BadBody), "invalid URL")
    /\ UNCHANGED << manifest, packages, moduleName, errorDialog, workbook, savedAs, funVars >>

\* a second passes while client.Do or the read of the body blocks
Tick ==
    /\ pc = "call"
    /\ request.clock < ClientTimeout
    /\ request.wait < ResponseHeaderTimeout
    /\ request' = [ request EXCEPT !.clock = @ + 1,
                                   !.wait = IF request.phase = "headers" THEN @ + 1 ELSE @ ]
    /\ UNCHANGED << manifest, pc, packages, moduleName, idx, errorDialog, workbook, sheet,
                    savedAs, events, openBodies, funVars >>

\* the connection is made and the request written: the wait for the headers begins
Connected ==
    /\ pc = "call"
    /\ request.phase = "connect"
    /\ request.clock < ClientTimeout
    /\ request' = [ request EXCEPT !.phase = "headers" ]
    /\ UNCHANGED << manifest, pc, packages, moduleName, idx, errorDialog, workbook, sheet,
                    savedAs, events, openBodies, funVars >>

\* client.Do returns an error: the connection fails or breaks
TransportError ==
    /\ pc = "call"
    /\ request.phase \in { "connect", "headers" }
    /\ Complete(events, Response(TRUE, TRUE, 0, BadBody), "transport error")
    /\ UNCHANGED << manifest, packages, moduleName, errorDialog, workbook, savedAs, funVars >>

\* client.Do returns an error: ResponseHeaderTimeout has passed without headers
HeaderTimeout ==
    /\ pc = "call"
    /\ request.phase = "headers"
    /\ request.wait = ResponseHeaderTimeout
    /\ Complete(events, Response(TRUE, TRUE, 0, BadBody), "timeout")
    /\ UNCHANGED << manifest, packages, moduleName, errorDialog, workbook, savedAs, funVars >>

\* the deadline of the request passes: client.Do returns an error, or the read of the
\* body fails and with it the decoding
Deadline ==
    /\ pc = "call"
    /\ request.clock = ClientTimeout
    /\ IF request.phase = "body"
       THEN Complete(events, Response(TRUE, FALSE, StatusOK, BadBody), "timeout")
       ELSE Complete(events, Response(TRUE, TRUE, 0, BadBody), "timeout")
    /\ UNCHANGED << manifest, packages, moduleName, errorDialog, workbook, savedAs, funVars >>

\* the response headers arrive and client.Do returns: a status other than 200 ends
\* the call, 200 goes on to the read of the body
ReceiveHeaders(status, body) ==
    /\ pc = "call"
    /\ request.phase = "headers"
    /\ request.clock < ClientTimeout
    /\ request.wait < ResponseHeaderTimeout
    /\ IF status = StatusOK
       THEN /\ request' = [ request EXCEPT !.phase = "body" ]
            /\ UNCHANGED << pc, sheet, idx, events, openBodies >>
       ELSE Complete(events, Response(TRUE, FALSE, status, body), "status")
    /\ UNCHANGED << manifest, packages, moduleName, errorDialog, workbook, savedAs, funVars >>

\* the body arrives in full within the deadline and is decoded
ReceiveBody(body) ==
    /\ pc = "call"
    /\ request.phase = "body"
    /\ request.clock < ClientTimeout
    /\ Complete(events, Response(TRUE, FALSE, StatusOK, body),
                IF body.ok THEN "decoded" ELSE "decode error")
    /\ UNCHANGED << manifest, packages, moduleName, errorDialog, workbook, savedAs, funVars >>

\* main.go:1205, 1300-1307: after the last dependency the workbook is saved
Save(written) ==
    /\ pc = "loop"
    /\ idx = Len(packages)
    /\ IF written
       THEN savedAs' = moduleName \o s_license_xlsx /\ UNCHANGED errorDialog
       ELSE errorDialog' = s_save_failed /\ UNCHANGED savedAs
    /\ pc' = "returned"
    /\ UNCHANGED << manifest, packages, moduleName, idx, workbook, sheet, request, events,
                    openBodies, funVars >>

Next ==
    \/ Parse
    \/ StartCall
    \/ Tick
    \/ Connected
    \/ TransportError
    \/ HeaderTimeout
    \/ Deadline
    \/ \E status \in Statuses, body \in Bodies(manifest.file) : ReceiveHeaders(status, body)
    \/ \E body \in Bodies(manifest.file) : ReceiveBody(body)
    \/ \E written \in BOOLEAN : Save(written)

Spec == Init /\ [][Next]_vars

---------------------------------------------------------------------------
(* Version normalization on its own: the two resolvers' cleaning of a       *)
(* version constraint, applied to every constraint of a bounded alphabet.   *)

\* the characters constraints are written in
ConstraintChars == { ">", "<", "=", "~", "^", "1", ".", ",", " " }

\* the constraints normalized: every string of the alphabet up to the bound, and the
\* two constraints of the manifests above
Constraints == SeqsUpTo(ConstraintChars, MaxConstraintLen) \cup { v_caret, v_ge }

NormInit ==
    /\ constraint \in Constraints
    /\ normalized = NotNormalized
    /\ manifest = PackageJSONFile(TRUE, TRUE, Empty, (n_leftpad :> constraint), NoMap)
    /\ pc = "parse"
    /\ packages = << >>
    /\ moduleName = Empty
    /\ idx = 0
    /\ errorDialog = Empty
    /\ workbook = FALSE
    /\ sheet = << >>
    /\ savedAs = Empty
    /\ request = Idle
    /\ events = << >>
    /\ openBodies = 0
    /\ call = NoCall
    /\ result = NoResult

\* main.go:707-716, 1054, 1072: both resolvers clean the constraint of the dependency
\* left-pad, and getNPMMetadata builds its request URL from the cleaned version
Normalize ==
    /\ ~normalized.done
    /\ normalized' = [ done |-> TRUE,
                       pypi |-> PyPICleanVersion(constraint),
                       npm |-> NpmCleanVersion(constraint),
                       npmURL |-> NpmRequestURL(Package(n_leftpad, constraint, FALSE, FALSE)) ]
    /\ UNCHANGED << constraint, runVars, callVars >>

NormNext == Normalize

NormSpec == NormInit /\ [][NormNext]_vars

---------------------------------------------------------------------------
(* The parsers on their own: main up to the loop, on manifests with fuller  *)
(* dependency tables than those of a whole run.                             *)

d_spaced == n_requests \o << " " >> \o v_ge
n_poetry_core == s_poetry \o << "-", "c", "o", "r", "e" >>

\* pyproject.toml files that use the three conventions together
FullPyProjectFiles ==
    { PyProjectFile(TRUE, TRUE, << pn, tn >>, pd, td, dd) :
        pn \in { Empty, << "p" >> },
        tn \in { Empty, << "t" >> },
        pd \in SeqsUpTo({ d_requests, d_spaced, d_blank, s_python }, MaxEntries),
        td \in MapsUpTo({ s_python, n_requests, n_poetry_core }, { v_caret }, MaxEntries),
        dd \in MapsUpTo({ s_python, n_jest, n_poetry_core }, { Empty }, MaxEntries) }

ParserInit ==
    /\ manifest \in Manifests \cup FullPyProjectFiles
    /\ pc = "parse"
    /\ packages = << >>
    /\ moduleName = Empty
    /\ idx = 0
    /\ errorDialog = Empty
    /\ workbook = FALSE
    /\ sheet = << >>
    /\ savedAs = Empty
    /\ request = Idle
    /\ events = << >>
    /\ openBodies = 0
    /\ constraint = Empty
    /\ normalized = NotNormalized
    /\ call = NoCall
    /\ result = NoResult

ParserNext == Parse

ParserSpec == ParserInit /\ [][ParserNext]_vars

---------------------------------------------------------------------------
(* The resolvers on their own: one call of a resolver on a package and an   *)
(* answer of its registry, over fuller answers than those of a whole run.   *)

t_osi == << "O", "S", "I", " ", "A", "p", "p", "r", "o", "v", "e", "d" >>
t_gplv3_plus ==
    << "G", "N", "U", " ", "G", "e", "n", "e", "r", "a", "l", " ", "P", "u", "b", "l", "i",
       "c", " ", "L", "i", "c", "e", "n", "s", "e", " ", "v", "3", " ", "o", "r", " ", "l",
       "a", "t", "e", "r", " ", "(", "G", "P", "L", "v", "3", "+", ")" >>
t_proprietary == << "P", "r", "o", "p", "r", "i", "e", "t", "a", "r", "y" >>
t_public_domain == s_License_prefix \o << "P", "u", "b", "l", "i", "c" >>
t_python_3 == << "P", "y", "t", "h", "o", "n", " ", ":", ":", " ", "3", " ", ":", ":", " ", "O", "n", "l", "y" >>
t_disclaimer == s_MIT \o << " ", "-", " " >> \o s_not_legal_advice
t_mit_license == s_MIT \o << " " >> \o s_license
t_pkg_page == s_https \o s_pkg_go_dev_host \o << "/", "x" >>
t_copyright_line == s_copyright_sign \o << " ", "A", "l" >>
t_readme == << "h", "i", "\n", " " >> \o t_copyright_line

\* a license classifier of three segments whose last is name
Classifier(name) == s_License_prefix \o t_osi \o s_sep \o name

\* the identifiers the resolver writes, the verbose names of its table, other texts
StandardIds ==
    { s_MIT, s_Apache_2_0, s_BSD_3_Clause, s_MPL_2_0, s_GPL_3_0, s_GPL_2_0, s_LGPL_3_0, s_LGPL_2_0 }
VerboseNames == { c_Apache, c_BSD, c_MIT, c_MPL, c_GPLv3, c_GPLv2, c_LGPLv3, c_LGPLv2 }
LicenseTexts == StandardIds \cup VerboseNames \cup { t_gplv3_plus, t_proprietary }

ClassifierTexts ==
    { Classifier(x) : x \in LicenseTexts \cup { Empty } } \cup { t_public_domain, t_python_3 }

\* a PyPI answer with these classifiers and this license field, nothing else
LicenseDoc(cs, lic) ==
    PyPIDoc(<< Empty, Empty >>, cs, << Empty, Empty >>, Empty, lic, NoMap, NoMap)

PyPIDocs ==
    { LicenseDoc(cs, lic) :
        cs \in SeqsUpTo(ClassifierTexts, MaxClassifiers), lic \in { Empty, s_MIT, s_LGPL_3_0 } }
    \cup { LicenseDoc(<< >>, lic) : lic \in LicenseTexts }
    \cup { pypi_full, pypi_bare }

\* keys and URLs of project_urls
k_Source == << "S", "o", "u", "r", "c", "e" >>
k_repository == << "r", "e", "p", "o", "s", "i", "t", "o", "r", "y" >>
k_Docs == << "D", "o", "c", "s" >>
u_github == << "G", "i", "t", "H", "u", "b", "/", "a" >>
u_github_b == << "g", "i", "t", "h", "u", "b", "/", "b" >>
u_gitlab == << "g", "i", "t", "l", "a", "b", "/", "c" >>

\* a PyPI answer with this home page and these project_urls, nothing else
URLDoc(home, urls) ==
    PyPIDoc(<< Empty, Empty >>, << >>, << Empty, Empty >>, home, Empty, urls, NoMap)

URLDocs ==
    { URLDoc(home, urls) :
        home \in { Empty, t_repository },
        urls \in MapsUpTo({ k_Source, k_repository, k_Docs },
                          { u_github, u_github_b, u_gitlab }, MaxEntries) }

\* versions, and the upload times of the files of a release
r_1 == << "1" >>
r_2 == << "2" >>
r_3 == << "3" >>
t_upload_later == << "2", "0", "2", "1" >>
ReleaseFiles ==
    { << >>, << Empty >>, << t_upload >>, << t_upload_later >>, << t_upload, t_upload_later >> }

\* a PyPI answer with these releases, nothing else
ReleaseDoc(releases) ==
    PyPIDoc(<< Empty, Empty >>, << >>, << Empty, Empty >>, Empty, Empty, NoMap, releases)

ReleaseDocs == { ReleaseDoc(rels) : rels \in MapsUpTo({ r_1, r_2, r_3 }, ReleaseFiles, MaxEntries) }

\* a constraint of an operator alone
v_operator == << ">", "=" >>

\* what the author field may be decoded to: nothing, a number, a string, an object
\* with some of name and email, each a string or null
t_email == << "a", "@", "x" >>
t_maintainer == << "M", "o" >>
AuthorValues ==
    { JNull, JNumber, JString(Empty), JString(t_author) }
    \cup { JObject(f) :
              f \in UNION { [ K -> { JString(Empty), JString(t_author), JString(t_email), JNull } ] :
                              K \in SUBSET { "name", "email" } } }

\* the maintainers lists: none, one entry with some of name and email, two entries
MaintainerEntries ==
    UNION { [ K -> { Empty, t_maintainer, t_email } ] : K \in SUBSET { "name", "email" } }
MaintainerLists ==
    { << >> } \cup { << m >> : m \in MaintainerEntries }
    \cup { << [ k \in { } |-> Empty ], [ k \in { "name" } |-> t_maintainer ] >> }

\* an npm answer with this author and these maintainers, nothing else
AuthorDoc(author, maintainers) ==
    NpmDoc(Empty, << >>, author, maintainers, Empty, Empty, Empty, Empty)

NpmDocs ==
    { NpmDoc(lic, lics, JNull, << >>, Empty, Empty, Empty, readme) :
        lic \in { Empty, s_MIT },
        lics \in { << >>, << Empty >>, << s_BSD >> },
        readme \in { Empty, t_readme, t_description } }
    \cup { AuthorDoc(a, ms) : a \in AuthorValues, ms \in MaintainerLists }
    \cup { npm_full, npm_bare, npm_author_name_null }

\* an author text of n characters
LongText(n) == [ k \in 1..n |-> "a" ]

\* what the selectors of each field may find
LicenseNodes == { NoNode, Node(s_MIT, Empty), Node(Empty, Empty), Node(t_disclaimer, Empty) }
DescriptionNodes == { NoNode, Node(t_description, Empty), Node(<< " " >>, Empty) }
RepositoryNodes == { NoNode, Node(Empty, t_repository), Node(Empty, Empty), Node(Empty, t_pkg_page) }
AuthorNodes ==
    { NoNode, Node(t_author, Empty), Node(t_mit_license, Empty),
      Node(LongText(MaxAuthorLen), Empty), Node(LongText(MaxAuthorLen - 1), Empty) }
CopyrightNodes == { NoNode, Node(t_copyright_line, Empty), Node(Empty, Empty) }

\* pages that differ from the bare page in the license and copyright nodes, or in
\* the nodes of one other field (of the repository and author selectors, the first
\* two and the last)
GoDocs ==
    { GoDoc(l, go_bare.Description, go_bare.Repository, go_bare.Author, c) :
        l \in [ 1..3 -> LicenseNodes ], c \in [ 1..3 -> CopyrightNodes ] }
    \cup { GoDoc(go_bare.License, d, go_bare.Repository, go_bare.Author, go_bare.Copyright) :
              d \in [ 1..4 -> DescriptionNodes ] }
    \cup { GoDoc(go_bare.License, go_bare.Description, << r[1], r[2], NoNode, r[3] >>,
                  go_bare.Author, go_bare.Copyright) :
              r \in [ 1..3 -> RepositoryNodes ] }
    \cup { GoDoc(go_bare.License, go_bare.Description, go_bare.Repository,
                  << a[1], a[2], NoNode, NoNode, NoNode, a[3] >>, go_bare.Copyright) :
              a \in [ 1..3 -> AuthorNodes ] }
    \cup { go_full }

\* a call of the resolver of a manifest type
Call(file, pkg, resp) == [ file |-> file, pkg |-> pkg, resp |-> resp ]

\* the answers a registry gives: the request fails, the status is not 200, the body
\* cannot be decoded, or the body is one of docs
Answers(docs) ==
    { Response(TRUE, TRUE, 0, BadBody), Response(TRUE, FALSE, 404, BadBody),
      Response(TRUE, FALSE, StatusOK, BadBody) }
    \cup { Response(TRUE, FALSE, StatusOK, Body(d)) : d \in docs }

Calls ==
    { Call("go.mod", Package(p, v_go, TRUE, FALSE), r) :
        p \in { p_github, p_uber }, r \in Answers(GoDocs) }
    \cup { Call("package.json", Package(n_leftpad, v_caret, FALSE, FALSE), r) :
              r \in Answers(NpmDocs) }
    \cup { Call("pyproject.toml", Package(n_requests, v_ge, FALSE, TRUE), r) :
              r \in Answers(PyPIDocs \cup URLDocs \cup ReleaseDocs) }
    \cup { Call("pyproject.toml", Package(n_requests, v, FALSE, TRUE), r) :
              v \in { Empty, v_operator }, r \in Answers(ReleaseDocs) }

ResolverInit ==
    /\ call \in Calls
    /\ result = NoResult
    /\ manifest = PackageJSONFile(FALSE, FALSE, Empty, NoMap, NoMap)
    /\ pc = "parse"
    /\ packages = << >>
    /\ moduleName = Empty
    /\ idx = 0
    /\ errorDialog = Empty
    /\ workbook = FALSE
    /\ sheet = << >>
    /\ savedAs = Empty
    /\ request = Idle
    /\ events = << >>
    /\ openBodies = 0
    /\ constraint = Empty
    /\ normalized = NotNormalized

\* main.go:1244: info = getGoModMetadata(&pkg)
CallGo ==
    /\ call.file = "go.mod"
    /\ ~result.done
    /\ \E out \in Resolve(call.file, call.pkg, call.resp) : result' = [ done |-> TRUE, out |-> out ]
    /\ UNCHANGED << call, runVars, normVars >>

\* main.go:1280: info = getNPMMetadata(&pkg)
CallNPM ==
    /\ call.file = "package.json"
    /\ ~result.done
    /\ \E out \in Resolve(call.file, call.pkg, call.resp) : result' = [ done |-> TRUE, out |-> out ]
    /\ UNCHANGED << call, runVars, normVars >>

\* main.go:1262: info = getPyPI_Metadata(&pkg)
CallPyPI ==
    /\ call.file = "pyproject.toml"
    /\ ~result.done
    /\ \E out \in Resolve(call.file, call.pkg, call.resp) : result' = [ done |-> TRUE, out |-> out ]
    /\ UNCHANGED << call, runVars, normVars >>

ResolverNext == CallGo \/ CallNPM \/ CallPyPI

ResolverSpec == ResolverInit /\ [][ResolverNext]_vars

---------------------------------------------------------------------------
(* Properties of a run (Spec).                                              *)

\* the manifest cannot be read or is not well-formed
Unparsable == ~manifest.readable \/ ~manifest.wellFormed

\* the run has come to a stop
Halted == pc \in { "returned", "exited", "panicked" }

\* the ways a request fails: transport error, timeout, status other than 200
FailedRequest == { "transport error", "timeout", "status" }

\* the dependency an event of the history is about, by its position
Turn(j) == (j + 1) \div 2

\* C1: when the manifest cannot be read or is not well-formed, the run ends once
\* the parse error has been shown: no resolver has been called, no workbook created,
\* no row written and no file saved.
C1_ParseErrorAborts ==
    (Unparsable /\ pc # "parse") =>
        /\ pc = "returned"
        /\ HasPrefix(errorDialog, s_parse_failed)
        /\ events = << >>
        /\ ~workbook
        /\ sheet = << >>
        /\ savedAs = Empty

\* a run that ended on a parse error
C1_Witness == Unparsable /\ pc = "returned" /\ HasPrefix(errorDialog, s_parse_failed)

\* C2: once the report has been started, a run that has stopped has written for each
\* dependency k (counted from 1) exactly the row k+1 below the header, and has gone
\* through the save step, whatever the outcome of each resolution.
C2_EveryDependencyARowThenSave ==
    (workbook /\ Halted) =>
        /\ pc = "returned"
        /\ DOMAIN sheet = 1..(Len(packages) + 1)
        /\ \A k \in 1..Len(packages) :
             \E j \in 1..Len(events) :
                /\ events[j].ev = "return"
                /\ events[j].dep = k
                /\ sheet[k + 1] = Row(manifest.file, events[j].info)
        /\ (savedAs # Empty \/ errorDialog = s_save_failed)

C4_Empty(info) ==
    /\ info.License = Empty
    /\ info.LicenseURL = Empty
    /\ info.Author = Empty
    /\ info.Description = Empty
    /\ info.Copyright = Empty
    /\ info.GitHubURL = Empty
    /\ info.Repository = Empty

\* C4 as stated: a resolver whose request fails (transport error, timeout, status other
\* than 200) returns a record whose license, author, description, copyright and every
\* URL field are empty.
C4_FailedRequestAllEmpty ==
    \A j \in 1..Len(events) :
        (events[j].ev = "return" /\ events[j].why \in FailedRequest) =>
            C4_Empty(events[j].info) /\ events[j].info.PackageURL = Empty

\* C4: a resolver whose request fails returns a record that holds the name, the
\* version and the ecosystem tag of the dependency, the name again in ModuleNameNoVer
\* (npm, PyPI) and, from getGoModMetadata, PackageURL = path/@v/version.info; its
\* other fields are empty.
C4_FailedRequestIdentityOnly ==
    \A j \in 1..Len(events) :
        (events[j].ev = "return" /\ events[j].why \in FailedRequest) =>
            LET pkg == packages[events[j].dep]
                info == events[j].info
                go == manifest.file = "go.mod"
            IN  /\ C4_Empty(info)
                /\ info.Name = pkg.Path
                /\ info.Version = pkg.Version
                /\ info.RepositoryType
                     = (IF go THEN s_go ELSE IF manifest.file = "package.json" THEN s_npm ELSE s_pypi)
                /\ info.ModuleNameNoVer = (IF go THEN Empty ELSE pkg.Path)
                /\ info.PackageURL
                     = (IF go THEN pkg.Path \o s_at_v \o pkg.Version \o s_info ELSE Empty)

\* getGoModMetadata and getNPMMetadata have each returned from a request that failed
C4_Witness ==
    \E j \in 1..Len(events) :
        /\ events[j].ev = "return"
        /\ events[j].why = "status"
        /\ events[j].info.Name # Empty
        /\ manifest.file \in { "go.mod", "package.json" }

\* C5: no resolver call ends in a panic, whatever the registry answers.
C5_NoResolverPanics ==
    \A j \in 1..Len(events) : events[j].ev # "panic"

\* C6: every started call comes to its end within the deadlines and ends by returning,
\* and a run that has started its report stops only after the save step.
C6_CallsEndAndRunReachesSave ==
    /\ request.clock <= ClientTimeout
    /\ request.wait <= ResponseHeaderTimeout
    /\ \A j \in 1..Len(events) :
         (events[j].ev = "call" /\ j < Len(events)) => events[j + 1].ev = "return"
    /\ (workbook /\ pc \notin { "loop", "call" }) => (pc = "returned" /\ idx = Len(packages))

\* C7: a readable, well-formed manifest that declares no dependency is parsed without
\* error and without a crash, into no record and a project descriptor; the run, when it
\* saves, saves a report of the header row alone.
C7_NoDependenciesHeaderOnly ==
    (~Unparsable /\ DeclaredEntries(manifest) = 0 /\ pc # "parse") =>
        /\ pc # "panicked"
        /\ ~HasPrefix(errorDialog, s_parse_failed)
        /\ packages = << >>
        /\ moduleName # Empty
        /\ events = << >>
        /\ (pc = "returned" /\ savedAs # Empty) =>
               /\ sheet = (1 :> Header(manifest.file))
               /\ savedAs = moduleName \o s_license_xlsx

\* C8: no record the parsers hand to main has an empty name.
C8_NoEmptyName ==
    \A k \in 1..Len(packages) : packages[k].Path # Empty

---------------------------------------------------------------------------
(* Properties of version normalization (NormSpec).                          *)

\* the operators C9 names, a longer one before its own first character
C9_Operators ==
    << << ">", "=" >>, << "=", "=" >>, << ">" >>, << "<", "=" >>, << "<" >>,
       << "~", "=" >>, << "^" >>, << "~" >> >>

\* the operators c begins with, by index
C9_Matching(c) == { i \in 1..Len(C9_Operators) : HasPrefix(c, C9_Operators[i]) }

\* c without the operator it begins with
C9_Remainder(c) ==
    LET i == CHOOSE i \in C9_Matching(c) : \A h \in C9_Matching(c) : i <= h
    IN  SubSeq(c, Len(C9_Operators[i]) + 1, Len(c))

\* s up to its first comma or space
C9_UpToCommaOrSpace(s) ==
    LET stops == { k \in 1..Len(s) : s[k] \in { ",", " " } }
    IN  IF stops = { } THEN s
        ELSE SubSeq(s, 1, (CHOOSE k \in stops : \A h \in stops : k <= h) - 1)

\* C9: for a constraint that begins with one of >=, ==, >, <=, <, ~=, ^, ~ both
\* resolvers' normalization gives the text after that one operator, up to the first
\* comma or space.
C9_StripsOneOperator ==
    (normalized.done /\ C9_Matching(constraint) # { }) =>
        /\ normalized.pypi = C9_UpToCommaOrSpace(C9_Remainder(constraint))
        /\ normalized.npm = C9_UpToCommaOrSpace(C9_Remainder(constraint))

\* a concrete version: digits and dots, a digit first
C10_Concrete(c) ==
    /\ c # Empty
    /\ c[1] \in { "0", "1", "3" }
    /\ \A k \in 1..Len(c) : c[k] \in { "0", "1", "3", "." }

\* C10: for a concrete version c, getNPMMetadata normalizes ^c and ~c to c, and c is
\* the version in the path of its registry request.
C10_CaretAndTildeStripped ==
    (/\ normalized.done
     /\ constraint # Empty
     /\ constraint[1] \in { "^", "~" }
     /\ C10_Concrete(Tail(constraint))) =>
        /\ normalized.npm = Tail(constraint)
        /\ normalized.npmURL
             = << "https://registry.npmjs.org/" >> \o n_leftpad \o << "/" >> \o Tail(constraint)

\* ^1.3.0 has been normalized to 1.3.0
C10_Witness ==
    /\ normalized.done
    /\ constraint = << "^", "1", ".", "3", ".", "0" >>
    /\ normalized.npm = << "1", ".", "3", ".", "0" >>

---------------------------------------------------------------------------
(* Properties of the parsers (ParserSpec).                                  *)

\* the parser has returned without error and main has gone on
Parsed == pc \in { "loop", "exited" }

\* the characters a version operator begins with
C11_OperatorChars == { ">", "<", "=", "~", "^", "!" }

\* the place of the first operator character of entry e, 0 when it has none
C11_OperatorAt(e) ==
    IF \E k \in 1..Len(e) : e[k] \in C11_OperatorChars
    THEN CHOOSE k \in 1..Len(e) :
           e[k] \in C11_OperatorChars /\ \A j \in 1..(k - 1) : e[j] \notin C11_OperatorChars
    ELSE 0

\* entry e is <name><operator><version> written without white space
C11_NameOperatorVersion(e) ==
    /\ \A k \in 1..Len(e) : ~IsSpace(e[k])
    /\ C11_OperatorAt(e) > 1
    /\ C11_OperatorAt(e) < Len(e)

\* C11: for a project.dependencies string <name><operator><version> without white
\* space, parsePyProjectToml emits a record whose name is <name> alone and whose
\* constraint is <operator><version> ("requests>=2.0.0" gives "requests", ">=2.0.0").
C11_NameSplitFromConstraint ==
    (Parsed /\ manifest.file = "pyproject.toml") =>
        \A k \in 1..Len(manifest.projectDependencies) :
            LET e == manifest.projectDependencies[k]
            IN  C11_NameOperatorVersion(e) =>
                    \E j \in 1..Len(packages) :
                        /\ packages[j].Path = SubSeq(e, 1, C11_OperatorAt(e) - 1)
                        /\ packages[j].Version = SubSeq(e, C11_OperatorAt(e), Len(e))

---------------------------------------------------------------------------
(* Properties of the resolvers (ResolverSpec).                              *)

\* the resolver has returned a record
Resolved == result.done /\ ~result.out.panicked

\* the registry's answer was decoded: the record is filled from a document
Decoded == call.resp.sent /\ ~call.resp.err /\ call.resp.status = 200 /\ call.resp.body.ok

\* the resolver of pyproject.toml has returned a record filled from a document
ResolvedPyPI == Resolved /\ Decoded /\ call.file = "pyproject.toml"

\* the resolver of go.mod has returned a record filled from a page
ResolvedGo == Resolved /\ Decoded /\ call.file = "go.mod"

\* the identifiers C12 names
C12_Identifiers ==
    { << "M", "I", "T" >>,
      << "A", "p", "a", "c", "h", "e", "-", "2", ".", "0" >>,
      << "B", "S", "D", "-", "3", "-", "C", "l", "a", "u", "s", "e" >>,
      << "M", "P", "L", "-", "2", ".", "0" >>,
      << "G", "P", "L", "-", "3", ".", "0" >>,
      << "G", "P", "L", "-", "2", ".", "0" >>,
      << "L", "G", "P", "L", "-", "3", ".", "0" >>,
      << "L", "G", "P", "L", "-", "2", ".", "0" >> }

\* C12: standardizing an identifier that standardization produces gives it back: as
\* the last segment of the license classifier (the table), and as the license field
\* of an answer without classifiers (the free-text fallback).
C12_StandardizationIdempotent ==
    ResolvedPyPI =>
        LET doc == call.resp.body.doc
        IN  /\ \A x \in C12_Identifiers :
                 doc.Classifiers = << Classifier(x) >> => result.out.info.License = x
            /\ (doc.Classifiers = << >> /\ doc.License \in C12_Identifiers) =>
                 result.out.info.License = doc.License

\* the verbose names of the classifier table, each with its identifier
C13_Table ==
    { << c_Apache, s_Apache_2_0 >>, << c_BSD, s_BSD_3_Clause >>, << c_MIT, s_MIT >>,
      << c_MPL, s_MPL_2_0 >>, << c_GPLv3, s_GPL_3_0 >>, << c_GPLv2, s_GPL_2_0 >>,
      << c_LGPLv3, s_LGPL_3_0 >>, << c_LGPLv2, s_LGPL_2_0 >> }

\* the identifier of a classifier's last segment: by the table, else the segment
C13_Standard(name) ==
    IF \E row \in C13_Table : row[1] = name
    THEN (CHOOSE row \in C13_Table : row[1] = name)[2]
    ELSE name

\* the segments of classifier c
C13_Segments(c) == Split(c, << " ", ":", ":", " " >>)

\* c is "License :: ... :: <Name>": at least three segments, the first one License
C13_LicenseClassifier(c) ==
    Len(C13_Segments(c)) >= 3 /\ C13_Segments(c)[1] = << "L", "i", "c", "e", "n", "s", "e" >>

\* the last segment of the first license classifier of cs
C13_FirstName(cs) ==
    LET k == CHOOSE k \in 1..Len(cs) :
               C13_LicenseClassifier(cs[k]) /\ \A j \in 1..(k - 1) : ~C13_LicenseClassifier(cs[j])
    IN  C13_Segments(cs[k])[Len(C13_Segments(cs[k]))]

\* the answer has a license classifier
C13_HasLicenseClassifier(cs) == \E k \in 1..Len(cs) : C13_LicenseClassifier(cs[k])

C14_Usable(node) ==
    node.found /\ node.href # Empty /\ ~Contains(node.href, << "p", "k", "g", ".", "g", "o", ".", "d", "e", "v" >>)

\* C14: when the page was fetched, no repository selector found a usable link and the
\* module path contains "github.com/", GitHubURL is "https://" followed by the path.
C14_GitHubURLFromPath ==
    (/\ ResolvedGo
     /\ \A k \in 1..Len(call.resp.body.doc.Repository) : ~C14_Usable(call.resp.body.doc.Repository[k])
     /\ Contains(call.pkg.Path, << "g", "i", "t", "h", "u", "b", ".", "c", "o", "m", "/" >>)) =>
        result.out.info.GitHubURL = << "h", "t", "t", "p", "s", ":", "/", "/" >> \o call.pkg.Path

\* for github.com/u/r, a page whose only repository link leads back to pkg.go.dev
C14_Witness ==
    /\ ResolvedGo
    /\ call.pkg.Path = p_github
    /\ call.resp.body.doc.Repository = << Node(Empty, t_pkg_page), NoNode, NoNode, Node(Empty, Empty) >>
    /\ result.out.info.GitHubURL = s_https \o p_github

\* C15: in every record a resolver returns, LicenseURL is empty exactly when License
\* is, and otherwise it is "https://licenses.nuget.org/" followed by License.
C15_LicenseURLFollowsLicense ==
    Resolved =>
        /\ (result.out.info.LicenseURL = Empty) <=> (result.out.info.License = Empty)
        /\ result.out.info.License # Empty =>
             result.out.info.LicenseURL
               = << "https://licenses.nuget.org/" >> \o result.out.info.License

\* the substring checks C16 names, on a text the table does not hold
C16_BySubstring(x) ==
    IF Contains(x, << "A", "p", "a", "c", "h", "e" >>) THEN s_Apache_2_0
    ELSE IF Contains(x, << "M", "I", "T" >>) THEN s_MIT
    ELSE IF Contains(x, << "B", "S", "D" >>) THEN s_BSD_3_Clause
    ELSE IF Contains(x, << "G", "P", "L" >>) /\ Contains(x, << "3" >>) THEN s_GPL_3_0
    ELSE IF Contains(x, << "G", "P", "L" >>) /\ Contains(x, << "2" >>) THEN s_GPL_2_0
    ELSE x

\* the one standardization of C16: the table of verbose names (that of C13), then the
\* substring checks, then the text unchanged
C16_Standardize(x) ==
    IF \E row \in C13_Table : row[1] = x THEN C13_Standard(x) ELSE C16_BySubstring(x)

\* C16: License is the one standardization (table, then substring checks, then the raw
\* text) of the last segment of the first license classifier when there is one, and
\* of the license field when there is no license classifier.
C16_OneStandardization ==
    ResolvedPyPI =>
        LET doc == call.resp.body.doc
        IN  IF C13_HasLicenseClassifier(doc.Classifiers)
            THEN C13_FirstName(doc.Classifiers) # Empty =>
                   result.out.info.License = C16_Standardize(C13_FirstName(doc.Classifiers))
            ELSE doc.License # Empty =>
                   result.out.info.License = C16_Standardize(doc.License)

\* the copyright texts the answer of the call holds: the texts of the page's
\* copyright nodes, the lines of the readme
C17_Scraped ==
    IF ~Decoded THEN { }
    ELSE IF call.file = "go.mod"
    THEN { TrimSpace(call.resp.body.doc.Copyright[k].text) : k \in 1..3 }
    ELSE IF call.file = "package.json"
    THEN { TrimSpace(l) : l \in { Split(call.resp.body.doc.Readme, << "\n" >>)[k] :
                                    k \in 1..Len(Split(call.resp.body.doc.Readme, << "\n" >>)) } }
    ELSE { }

\* C17: in every record a resolver returns, a License that is not empty makes Copyright
\* that License followed by " Copyright"; with an empty License, Copyright is empty or
\* a copyright text scraped from the answer.
C17_CopyrightFollowsLicense ==
    Resolved =>
        IF result.out.info.License # Empty
        THEN result.out.info.Copyright
               = result.out.info.License \o << " ", "C", "o", "p", "y", "r", "i", "g", "h", "t" >>
        ELSE result.out.info.Copyright = Empty \/ result.out.info.Copyright \in C17_Scraped

\* a page with a license and a copyright node: the license made the Copyright
C17_Witness ==
    /\ ResolvedGo
    /\ call.resp.body.doc.License[1] = Node(s_MIT, Empty)
    /\ call.resp.body.doc.Copyright[1] = Node(t_copyright_line, Empty)
    /\ result.out.info.Copyright = s_MIT \o s_Copyright

---------------------------------------------------------------------------
(* Properties of the parsers' results (ParserSpec).                         *)

\* the names of Poetry map mp that are neither "python" nor contain "poetry"
C18_Kept(mp) ==
    { n \in DOMAIN mp : n # << "p", "y", "t", "h", "o", "n" >> /\ ~Contains(n, << "p", "o", "e", "t", "r", "y" >>) }

\* the project.dependencies strings that are not blank, in the order of the file
C18_NonBlank(deps) ==
    SelectSeq(deps, LAMBDA e : \E k \in 1..Len(e) : ~IsSpace(e[k]))

\* C18: parsePyProjectToml returns one record for every entry of the Poetry
\* dependencies map and then of the dev-dependencies map, except the names equal to
\* "python" or containing "poetry", and then one record for every project.dependencies
\* string that is not blank; no record from the Poetry maps is named "python" or has a
\* name containing "poetry".
C18_ThreeConventionsMerged ==
    (Parsed /\ manifest.file = "pyproject.toml") =>
        LET kept == C18_Kept(manifest.poetryDependencies)
            devKept == C18_Kept(manifest.poetryDevDependencies)
            nonBlank == C18_NonBlank(manifest.projectDependencies)
            nk == Cardinality(kept)
            nd == Cardinality(devKept)
        IN  /\ Len(packages) = nk + nd + Len(nonBlank)
            /\ \A n \in kept : \E j \in 1..nk :
                   packages[j] = Package(n, manifest.poetryDependencies[n], FALSE, TRUE)
            /\ \A n \in devKept : \E j \in (nk + 1)..(nk + nd) :
                   packages[j] = Package(n, manifest.poetryDevDependencies[n], FALSE, TRUE)
            /\ \A j \in 1..(nk + nd) :
                   /\ packages[j].Path # << "p", "y", "t", "h", "o", "n" >>
                   /\ ~Contains(packages[j].Path, << "p", "o", "e", "t", "r", "y" >>)
            /\ \A i \in 1..Len(nonBlank) :
                   /\ packages[nk + nd + i].Path # Empty
                   /\ Contains(nonBlank[i], packages[nk + nd + i].Path)
                   /\ packages[nk + nd + i].PyProject
                   /\ ~packages[nk + nd + i].GoMod

\* a file using the three conventions, with entries that are skipped and a blank string
C18_Witness ==
    /\ Parsed
    /\ manifest.file = "pyproject.toml"
    /\ DOMAIN manifest.poetryDependencies = { s_python, n_requests }
    /\ DOMAIN manifest.poetryDevDependencies = { n_poetry_core, n_jest }
    /\ manifest.projectDependencies = << d_blank, d_requests >>
    /\ Len(packages) = 3

---------------------------------------------------------------------------
(* Properties of the derived name (Spec).                                   *)

\* the name C19 derives from manifest m
C19_DerivedName(m) ==
    IF m.file = "go.mod" THEN m.module \o << "-", "a", "p", "i" >>
    ELSE IF m.file = "package.json" THEN m.name \o << "-", "u", "i" >>
    ELSE (IF m.poetryName # Empty THEN m.poetryName
          ELSE IF m.projectName # Empty THEN m.projectName
          ELSE << "python-project" >>) \o << "-", "p", "y" >>

\* C19: the name a parser returns is, for pyproject.toml, the Poetry name when it is not
\* empty, else the project name when it is not empty, else "python-project", followed by
\* "-py"; for go.mod the module path followed by "-api"; for package.json the package
\* name followed by "-ui"; and the report is saved as that name followed by
\* "_license.xlsx".
C19_DerivedNameAndArtifact ==
    /\ (pc \notin { "parse", "panicked" } /\ ~HasPrefix(errorDialog, s_parse_failed)) =>
           moduleName = C19_DerivedName(manifest)
    /\ savedAs # Empty =>
           savedAs = C19_DerivedName(manifest) \o << "_license.xlsx" >>

\* a report saved for a pyproject.toml that has both names: Poetry's is taken
C19_Witness ==
    /\ pc = "returned"
    /\ manifest.file = "pyproject.toml"
    /\ manifest.projectName = << "p" >>
    /\ manifest.poetryName = << "t" >>
    /\ savedAs = << "t", "-", "p", "y", "_license.xlsx" >>

\* reports saved for a go.mod and for a package.json
C19_WitnessOthers ==
    /\ pc = "returned"
    /\ manifest.file \in { "go.mod", "package.json" }
    /\ savedAs # Empty

---------------------------------------------------------------------------
(* Properties of the page selectors (ResolverSpec).                         *)

\* a license match that is not empty and plausible
C20_LicenseOK(node) ==
    /\ node.found
    /\ TrimSpace(node.text) # Empty
    /\ ~Contains(TrimSpace(node.text),
                 << "n", "o", "t", " ", "l", "e", "g", "a", "l", " ", "a", "d", "v", "i", "c", "e" >>)

\* a description match that is not empty
C20_DescriptionOK(node) == node.found /\ TrimSpace(node.text) # Empty

\* an author match that is not empty and plausible
C20_AuthorOK(node) ==
    /\ node.found
    /\ TrimSpace(node.text) # Empty
    /\ Len(TrimSpace(node.text)) < 100
    /\ ~Contains(ToLower(TrimSpace(node.text)), << "l", "i", "c", "e", "n", "s", "e" >>)
    /\ ~Contains(ToLower(TrimSpace(node.text)), << "c", "o", "p", "y", "r", "i", "g", "h", "t" >>)

\* the selectors of nodes whose match passes, as ok says of each
C20_First(ok) ==
    CHOOSE k \in DOMAIN ok : ok[k] /\ \A j \in 1..(k - 1) : ~ok[j]

\* C20: on a fetched page, each of license, description, repository link and author is
\* the value of the first selector, in the order of the code, whose match is not empty
\* and plausible; a selector before it whose match is empty or implausible does not
\* keep it from being taken.
C20_FirstPlausibleSelectorWins ==
    ResolvedGo =>
        LET doc == call.resp.body.doc
            lic == [ k \in DOMAIN doc.License |-> C20_LicenseOK(doc.License[k]) ]
            des == [ k \in DOMAIN doc.Description |-> C20_DescriptionOK(doc.Description[k]) ]
            rep == [ k \in DOMAIN doc.Repository |-> C14_Usable(doc.Repository[k]) ]
            aut == [ k \in DOMAIN doc.Author |-> C20_AuthorOK(doc.Author[k]) ]
        IN  /\ (\E k \in DOMAIN lic : lic[k]) =>
                   result.out.info.License = TrimSpace(doc.License[C20_First(lic)].text)
            /\ (\E k \in DOMAIN des : des[k]) =>
                   result.out.info.Description = TrimSpace(doc.Description[C20_First(des)].text)
            /\ (\E k \in DOMAIN rep : rep[k]) =>
                   result.out.info.GitHubURL = doc.Repository[C20_First(rep)].href
            /\ (\E k \in DOMAIN aut : aut[k]) =>
                   result.out.info.Author = TrimSpace(doc.Author[C20_First(aut)].text)

---------------------------------------------------------------------------
(* Properties of the PyPI resolver's maps (ResolverSpec).                   *)

\* a project_urls value that contains "github", whatever the case
C21_GitHubValue(url) == Contains(ToLower(url), << "g", "i", "t", "h", "u", "b" >>)

\* a project_urls key that contains "source" or "repository", whatever the case
C21_SourceKey(key) ==
    \/ Contains(ToLower(key), << "s", "o", "u", "r", "c", "e" >>)
    \/ Contains(ToLower(key), << "r", "e", "p", "o", "s", "i", "t", "o", "r", "y" >>)

\* C21: when some project_urls value contains "github", GitHubURL is such a value; when
\* some project_urls key contains "source" or "repository", Repository is the URL of
\* such a key; each whatever the other entries and the order of the map; a field with
\* no such entry keeps the home page.
C21_IndependentChecks ==
    ResolvedPyPI =>
        LET urls == call.resp.body.doc.Project_urls
            home == call.resp.body.doc.Home_page
        IN  /\ IF \E k \in DOMAIN urls : C21_GitHubValue(urls[k])
               THEN \E k \in DOMAIN urls :
                        C21_GitHubValue(urls[k]) /\ result.out.info.GitHubURL = urls[k]
               ELSE result.out.info.GitHubURL = home
            /\ IF \E k \in DOMAIN urls : C21_SourceKey(k)
               THEN \E k \in DOMAIN urls :
                        C21_SourceKey(k) /\ result.out.info.Repository = urls[k]
               ELSE result.out.info.Repository = home

\* release v of releases has an upload time (that of its first file, the one the
\* resolver reads), and no release has a greater one
C22_Greatest(releases, v) ==
    /\ v \in DOMAIN releases
    /\ Len(releases[v]) > 0
    /\ \A w \in DOMAIN releases :
         Len(releases[w]) > 0 => ~StringGreater(releases[w][1], releases[v][1])

\* some release of releases has an upload time
C22_HasUploadTime(releases) ==
    \E v \in DOMAIN releases : Len(releases[v]) > 0 /\ releases[v][1] # Empty

---------------------------------------------------------------------------
(* Properties of the npm resolver's author (ResolverSpec).                  *)

\* the string a field of an author object holds, empty when it is not a string
C23_Text(v) == IF v.t = "string" THEN v.s ELSE << >>

\* what the author field yields: itself when a string; the name of an object, or the
\* email of an object without a name
C23_Primary(a) ==
    IF a.t = "string" THEN a.s
    ELSE IF a.t # "object" THEN << >>
    ELSE IF "name" \in DOMAIN a.f THEN C23_Text(a.f["name"])
    ELSE IF "email" \in DOMAIN a.f THEN C23_Text(a.f["email"])
    ELSE << >>

\* what the maintainers yield: the name of the first entry, or the email of a first
\* entry without a name
C23_Maintainer(ms) ==
    IF Len(ms) = 0 THEN << >>
    ELSE IF "name" \in DOMAIN ms[1] THEN ms[1]["name"]
    ELSE IF "email" \in DOMAIN ms[1] THEN ms[1]["email"]
    ELSE << >>

\* C23: for every decoded answer the npm resolver returns a record whose Author is what
\* the author field yields and, when that is nothing, what the first maintainer yields.
C23_AuthorSources ==
    (result.done /\ Decoded /\ call.file = "package.json") =>
        /\ ~result.out.panicked
        /\ result.out.info.Author
             = IF C23_Primary(call.resp.body.doc.Author) # << >>
               THEN C23_Primary(call.resp.body.doc.Author)
               ELSE C23_Maintainer(call.resp.body.doc.Maintainers)

---------------------------------------------------------------------------
(* Properties of the response bodies (Spec).                                *)

\* C24: every response a resolver obtained has its body closed when the resolver
\* returns, whatever the status: no body is open when the run moves on.
C24_NoBodyLeftOpen == openBodies = 0

---------------------------------------------------------------------------
(* Determinism of the PyPI resolver (ResolverSpec).                         *)

\* C25: the record the PyPI resolver returns for a dependency and a response is the
\* only one it can return for them: no order of ranging over project_urls and releases
\* gives another.
C25_SameInputSameRecord ==
    (Resolved /\ call.file = "pyproject.toml") =>
        \A out \in Resolve(call.file, call.pkg, call.resp) : out.info = result.out.info

=============================================================================
